---- MODULE Spec2Model ----
(***************************************************************************)
(* The Db2 dialect of the ORM: Query.run / Query._run / formatResults /    *)
(* formatError (lib/dialects/db2/query.js) and the Db2 query generator     *)
(* (transaction statements, dropTableQuery, upsertQuery).                  *)
(*                                                                         *)
(* One step of the model is one JavaScript callback run to completion.     *)
(* JavaScript values are strings ("undefined", "null", "0", "" ...); SQL   *)
(* text is a sequence of tokens <<kind, text>>; a driver message is a      *)
(* sequence of message fragments.                                          *)
(***************************************************************************)
EXTENDS Integers, Sequences, FiniteSets, TLC

VARIABLES
    lockHolder,   \* the run that holds the connection's lock, or NoQuery
    lockQueue,    \* runs waiting for the lock, in arrival order
    pc,           \* per run: position in run/_run
    req,          \* per run: the statement and options it was called with
    thisSql,      \* per run: this.sql, the text handed to the driver
    outcome,      \* per run: promise state "pending" | "resolved" | "rejected"
    value,        \* per run: the value the promise resolved with
    error,        \* per run: the error the promise rejected with
    uncaught,     \* per run: a callback of this run threw (uncaught exception)
    stmt,         \* per run: statement handle "none" | "open" | "closed"
    result,       \* per run: result handle "none" | "open" | "closed"
    calls,        \* per run: driver calls issued so far, in order
    translations, \* per run: how many times formatError was entered
    instanceId,   \* per run: value of instance[autoIncrementAttribute]
    driverErr,    \* per run: the error the driver handed to the last callback
    savepoint,    \* per run: the name handed to a transaction primitive, if any
    call,         \* a direct call of a function: its arguments and what it returned
    autoGenValue, \* per generator: this.autoGenValue
    emitted       \* per generator: the synthetic values in the SQL built so far

vars == <<lockHolder, lockQueue, pc, req, thisSql, outcome, value, error, uncaught,
          stmt, result, calls, translations, instanceId, driverErr, savepoint, call,
          autoGenValue, emitted>>

\* the variables of the runs on the connection
runVars == <<lockHolder, lockQueue, pc, req, thisSql, outcome, value, error,
             uncaught, stmt, result, calls, translations, instanceId, driverErr,
             savepoint>>

(***************************************************************************)
(* Bounds                                                                  *)
(***************************************************************************)
\* depth of transaction nesting: transaction k has parent k-1 (1 is outermost)
MaxTxDepth == 2
\* builds on one generator stop when its counter has reached this value
MaxAutoGen == 4

\* the query generator objects
Generators == {"g1", "g2"}

Queries == {"q1", "q2"}
NoQuery == "none"

(***************************************************************************)
(* JavaScript values                                                       *)
(***************************************************************************)
Undefined == "undefined"
Null == "null"
\* values that are false in a boolean context (||, &&, !, if)
Falsy == {Undefined, Null, "0", "", "false"}
Truthy(v) == v \notin Falsy
\* a || b
Or(a, b) == IF Truthy(a) THEN a ELSE b
\* a && b
And(a, b) == IF Truthy(a) THEN b ELSE a

(***************************************************************************)
(* SQL text                                                                *)
(***************************************************************************)
Kw(w) == <<"kw", w>>
Punct(p) == <<"punct", p>>
\* the base layer's identifier quoting: one quoted-identifier token
quoteIdentifier(name) == <<"qid", name>>
quoteTable(name) == <<"qid", name>>

\* str.indexOf(c) + 1: the first position of c in a list, 0 when it is not there
InSeqAt(str, c) ==
    IF \E i \in 1..Len(str) : str[i] = c
    THEN CHOOSE i \in 1..Len(str) : str[i] = c /\ \A j \in 1..(i - 1) : str[j] # c
    ELSE 0

\* _.startsWith(text, prefix)
StartsWith(text, prefix) ==
    /\ Len(text) >= Len(prefix)
    /\ SubSeq(text, 1, Len(prefix)) = prefix

NoSql == <<>>

(***************************************************************************)
(* JavaScript objects: a record of a presence flag and a property map.     *)
(***************************************************************************)
EmptyProps == [k \in {} |-> Undefined]
NoObj == [present |-> FALSE, props |-> EmptyProps]
Obj(props) == [present |-> TRUE, props |-> props]
\* o[k], undefined when the property is missing
Get(o, k) == IF k \in DOMAIN o.props THEN o.props[k] ELSE Undefined

(***************************************************************************)
(* Driver errors and their message text                                    *)
(***************************************************************************)
\* err.message.search(code) != -1
Contains(msg, frag) == \E i \in 1..Len(msg) : msg[i] = frag

Digits == {"0", "1", "2", "3", "4", "5", "6", "7", "8", "9"}
\* the number a digit stands for
DigitVal(d) ==
    LET chars == <<"0", "1", "2", "3", "4", "5", "6", "7", "8", "9">>
    IN  (CHOOSE i \in 1..10 : chars[i] = d) - 1

\* the fixed text of the vendor messages formatError matches
VendorText ==
    [u803 |-> <<"SQL0803N  One or more values ... identified by",
                "constrains table",
                "from having duplicate values for the index key.">>,
     f532 |-> <<"SQL0532N  A parent row cannot be deleted because the relationship",
                "restricts the deletion">>,
     n204 |-> <<"SQL0204N", "is an undefined name.">>]

\* a driver error object; message and sql may be missing; the driver sets no
\* parameters property and the code assigns none
MkErr(hasMessage, message, hasSql, sql) ==
    [hasMessage |-> hasMessage, message |-> message, hasSql |-> hasSql, sql |-> sql,
     hasParameters |-> FALSE]
\* err.message in a boolean context ('' is falsy)
MessageTruthy(err) == err.hasMessage /\ err.message # <<>>

NoMatch == [matched |-> FALSE, g1 |-> Undefined, g2 |-> Undefined, g3 |-> Undefined]

\* /SQL0803N ... identified by "(\d)+" constrains table "(.*)\.(.*)" from having .../
\* group 1 is the LAST digit the repeated group matched
MatchUnique(msg) ==
    LET fits(i, j) == /\ msg[i] = VendorText.u803[1]
                      /\ j > i + 1
                      /\ \A k \in (i + 1)..(j - 1) : msg[k] \in Digits
                      /\ msg[j] = VendorText.u803[2]
                      /\ j + 3 <= Len(msg)
                      /\ msg[j + 3] = VendorText.u803[3]
        hits == {p \in (1..Len(msg)) \X (1..Len(msg)) : fits(p[1], p[2])}
    IN  IF hits = {} THEN NoMatch
        ELSE LET p == CHOOSE h \in hits : \A o \in hits : h[1] <= o[1]
             IN  [matched |-> TRUE, g1 |-> msg[p[2] - 1],
                  g2 |-> msg[p[2] + 1], g3 |-> msg[p[2] + 2]]

\* /SQL0532N ... relationship "(.*)" restricts the deletion/ || /SQL0530N/ || /SQL0531N/
MatchForeignKey(msg) ==
    LET hits == {i \in 1..Len(msg) : /\ msg[i] = VendorText.f532[1]
                                     /\ i + 2 <= Len(msg)
                                     /\ msg[i + 2] = VendorText.f532[2]}
    IN  IF hits # {}
        THEN LET i == CHOOSE h \in hits : \A o \in hits : h <= o
             IN  [matched |-> TRUE, g1 |-> msg[i + 1], g2 |-> Undefined, g3 |-> Undefined]
        ELSE IF Contains(msg, "SQL0530N") \/ Contains(msg, "SQL0531N")
        THEN [matched |-> TRUE, g1 |-> Undefined, g2 |-> Undefined, g3 |-> Undefined]
        ELSE NoMatch

\* /SQL0204N  "(.*)" is an undefined name./
MatchUndefinedName(msg) ==
    LET hits == {i \in 1..Len(msg) : /\ msg[i] = VendorText.n204[1]
                                     /\ i + 2 <= Len(msg)
                                     /\ msg[i + 2] = VendorText.n204[2]}
    IN  IF hits = {} THEN NoMatch
        ELSE LET i == CHOOSE h \in hits : \A o \in hits : h <= o
             IN  [matched |-> TRUE, g1 |-> msg[i + 1], g2 |-> Undefined, g3 |-> Undefined]

\* err.sql.match(/table "(.+?)"/i): the identifier after the first TABLE keyword
TableOf(sql) ==
    LET hits == {i \in 1..(Len(sql) - 1) :
                    /\ sql[i] \in {Kw("TABLE"), Kw("table")}
                    /\ sql[i + 1][1] = "qid"}
    IN  IF hits = {} THEN Undefined
        ELSE sql[(CHOOSE h \in hits : \A o \in hits : h <= o) + 1][2]

(***************************************************************************)
(* Query.formatError                                                       *)
(***************************************************************************)
NoKey == [kind |-> "none", column |-> Undefined, msg |-> Undefined]
\* a uniqueKey in a boolean context
KeyTruthy(k) == k.kind # "none"

\* the catalog query built from the match groups
CatalogQuery(m) == [iid |-> m.g1, schema |-> m.g2, table |-> m.g3]

\* what formatError hands back when it throws a TypeError instead of returning
FormatErrorThrew(err, lookups) ==
    [threw |-> TRUE, kind |-> "TypeError", fields |-> EmptyProps, message |-> <<>>,
     index |-> Undefined, constraint |-> Undefined, table |-> Undefined,
     parent |-> err, lookups |-> lookups]

SemanticError(kind, err, fields, message, index, constraint, table, lookups) ==
    [threw |-> FALSE, kind |-> kind, fields |-> fields, message |-> message,
     index |-> index, constraint |-> constraint, table |-> table,
     parent |-> err, lookups |-> lookups]

\* lines 338-344: the declared unique key of that name, else the field at the
\* index id's position (a plain string, which has no column and no msg)
ResolveUniqueKey(opts, uniqueIndexName, iid) ==
    LET declared == IF opts.hasModel /\ uniqueIndexName # ""
                       /\ uniqueIndexName \in DOMAIN opts.uniqueKeys
                    THEN [kind |-> "key",
                          column |-> opts.uniqueKeys[uniqueIndexName].column,
                          msg |-> opts.uniqueKeys[uniqueIndexName].msg]
                    ELSE NoKey
        pos == DigitVal(iid) - 1
    IN  IF ~KeyTruthy(declared) /\ opts.fields.present
        THEN IF pos >= 0 /\ pos < Len(opts.fields.list)
             THEN [kind |-> "field", column |-> Undefined, msg |-> Undefined]
             ELSE NoKey
        ELSE declared

\* lines 346-356: the value the violation is attributed to
AttributeFields(opts, uniqueKey, parameters) ==
    IF ~KeyTruthy(uniqueKey) THEN EmptyProps
    ELSE IF opts.where.present /\ Get(opts.where, uniqueKey.column) # Undefined
    THEN [c \in {uniqueKey.column} |-> Get(opts.where, uniqueKey.column)]
    ELSE IF opts.instance.present /\ Truthy(Get(opts.instance, uniqueKey.column))
    THEN [c \in {uniqueKey.column} |-> Get(opts.instance, uniqueKey.column)]
    ELSE IF parameters.present
    THEN [c \in {uniqueKey.column} |-> parameters.first]
    ELSE EmptyProps

\* formatError(err, conn, parameters); conn.catalog is what conn.querySync
\* returns for the catalog query
FormatError(err, conn, parameters, opts) ==
    IF ~err.hasMessage THEN FormatErrorThrew(err, <<>>)
    ELSE
    LET mu == MatchUnique(err.message)
        mf == MatchForeignKey(err.message)
        mn == MatchUndefinedName(err.message)
    IN  IF mu.matched
        THEN LET lookups == IF conn.present THEN <<CatalogQuery(mu)>> ELSE <<>>
             IN  IF conn.present /\ conn.catalog = <<>>
                 THEN FormatErrorThrew(err, lookups)
                 ELSE
                 LET uniqueIndexName == IF conn.present THEN conn.catalog[1] ELSE ""
                     uniqueKey == ResolveUniqueKey(opts, uniqueIndexName, mu.g1)
                     fields == AttributeFields(opts, uniqueKey, parameters)
                     message == IF KeyTruthy(uniqueKey) /\ Truthy(uniqueKey.msg)
                                THEN <<uniqueKey.msg>> ELSE err.message
                 IN  SemanticError("UniqueConstraintError", err, fields, message,
                                   Undefined, Undefined, Undefined, lookups)
        ELSE IF mf.matched
        THEN SemanticError("ForeignKeyConstraintError", err, EmptyProps, <<>>,
                           mf.g1, Undefined, Undefined, <<>>)
        ELSE IF mn.matched
        THEN IF ~err.hasSql THEN FormatErrorThrew(err, <<>>)
             ELSE SemanticError("UnknownConstraintError", err, EmptyProps,
                                <<VendorText.n204[1], mn.g1, VendorText.n204[2]>>,
                                Undefined, mn.g1, TableOf(err.sql), <<>>)
        ELSE SemanticError("DatabaseError", err, EmptyProps, err.message,
                           Undefined, Undefined, Undefined, <<>>)

(***************************************************************************)
(* Rows, column metadata and result values                                 *)
(***************************************************************************)
\* a row is an ordered list of cells <<column, value, kind>>; the driver hands
\* over "raw" cells and the coercion pass may change the kind
RowGet(row, col) ==
    IF \E i \in 1..Len(row) : row[i][1] = col
    THEN row[CHOOSE i \in 1..Len(row) : row[i][1] = col][2]
    ELSE Undefined

\* the data / metadata arguments of formatResults, which may be left out
NoData == [present |-> FALSE, rows |-> <<>>]
Data(rows) == [present |-> TRUE, rows |-> rows]
NoMeta == [present |-> FALSE, id |-> Undefined, cols |-> <<>>]
Meta(id, cols) == [present |-> TRUE, id |-> id, cols |-> cols]

\* results && results[0] && results[0][col]
FirstRowField(data, col) ==
    IF ~data.present THEN Undefined
    ELSE IF data.rows = <<>> THEN Undefined
    ELSE RowGet(data.rows[1], col)

\* the value run resolves with
Val(shape, inner, rows, scalar, count) ==
    [shape |-> shape, inner |-> inner, rows |-> rows, scalar |-> scalar,
     count |-> count]
NoValue == Val("none", "none", <<>>, Undefined, -1)

(***************************************************************************)
(* Statement classification. isDropSchemaQuery is Query's own; the other   *)
(* predicates belong to the base query class and follow the option flags.  *)
(***************************************************************************)
isDropSchemaQuery(sql) == StartsWith(sql, <<Kw("CALL"), Kw("SYSPROC.ADMIN_DROP_SCHEMA")>>)
isCallQuery(sql) == StartsWith(sql, <<Kw("CALL")>>)
isOfType(opts, t) == opts.type = t

getInsertIdField == "id"

(***************************************************************************)
(* Query.handleInsertQuery: the id written onto the bound instance         *)
(***************************************************************************)
\* lines 465-469: the aliased field name of the auto-increment attribute
AutoIncrementAlias(opts) ==
    IF opts.alias # Undefined THEN opts.alias ELSE Null

\* lines 471-474 with the metadata's id tried before the first row's id field
InsertIdMetaFirst(opts, data, metadata) ==
    LET a == AutoIncrementAlias(opts)
        id1 == Or(Null, And(IF metadata.present THEN "object" ELSE Undefined,
                            metadata.id))
        id2 == Or(id1, FirstRowField(data, getInsertIdField))
        id3 == Or(id2, FirstRowField(data, opts.autoInc))
    IN  Or(id3, And(a, FirstRowField(data, a)))

\* lines 471-474: id = id || candidate, for the four candidates in order
InsertId(opts, data, metadata) ==
    LET a == AutoIncrementAlias(opts)
        id1 == Or(Null, FirstRowField(data, getInsertIdField))
        id2 == Or(id1, And(IF metadata.present THEN "object" ELSE Undefined,
                           metadata.id))
        id3 == Or(id2, FirstRowField(data, opts.autoInc))
    IN  Or(id3, And(a, FirstRowField(data, a)))

\* the instance attribute after handleInsertQuery; Unset when nothing is bound
Unset == "unset"
handleInsertQuery(opts, data, metadata, before) ==
    IF opts.instance.present THEN InsertId(opts, data, metadata) ELSE before

(***************************************************************************)
(* Query.formatResults(data, rowCount, metadata, conn)                     *)
(***************************************************************************)
FormatResultsThrew(id) ==
    [threw |-> TRUE, value |-> NoValue, instanceId |-> id, cleanup |-> 0]
Formatted(v, id, cleanup) ==
    [threw |-> FALSE, value |-> v, instanceId |-> id, cleanup |-> cleanup]

\* data[0] as a result value: the first row, or undefined
FirstRowValue(data) ==
    IF data.rows = <<>> THEN Val("undefined", "none", <<>>, Undefined, -1)
    ELSE Val("row", "none", <<data.rows[1]>>, Undefined, -1)

\* lines 233-245 without the test of options.plain
InsertBlockNoPlain(opts, data) ==
    IF opts.instance.present THEN Val("instance", "none", <<>>, Undefined, -1)
    ELSE IF isOfType(opts, "INSERT") /\ data.present
    THEN Val("rows", "none", data.rows, Undefined, -1)
    ELSE Val("undefined", "none", <<>>, Undefined, -1)

\* lines 233-245: `result` after the insert block
\* shape "instance" is the bound instance, "undefined" is no instance
InsertBlock(opts, data) ==
    LET start == IF opts.instance.present
                 THEN Val("instance", "none", <<>>, Undefined, -1)
                 ELSE Val("undefined", "none", <<>>, Undefined, -1)
    IN  IF isOfType(opts, "INSERT") /\ ~opts.instance.present
        THEN IF opts.plain
             THEN Val("scalar", "none", <<>>,
                      IF data.rows[1] = <<>> THEN Undefined ELSE data.rows[1][1][2], -1)
             ELSE IF data.present THEN Val("rows", "none", data.rows, Undefined, -1)
             ELSE Val("undefined", "none", <<>>, Undefined, -1)
        ELSE start

\* Object.keys(data[0]) of a missing first row is a TypeError
InsertBlockThrows(opts, data) ==
    /\ isOfType(opts, "INSERT")
    /\ ~opts.instance.present
    /\ opts.plain
    /\ (~data.present \/ data.rows = <<>>)

\* the branches of lines 247-294 that dereference data throw when data is left out
ChainThrows(opts, sql, data) ==
    /\ ~data.present
    /\ \/ opts.type \in {"SHOWTABLES", "DESCRIBE", "UPSERT", "BULKUPDATE"}
       \/ /\ opts.type \notin {"SHOWINDEXES", "SELECT"}
          /\ (isDropSchemaQuery(sql) \/ isCallQuery(sql))

\* line 288 without the pairing: the result alone
ResultAlone(r, rowCount) == r

\* line 288: result = [result, rowCount]
PairResult(r, rowCount) == Val("pair", r.shape, r.rows, r.scalar, rowCount)

FormatResults(opts, sql, data, rowCount, metadata, conn, before) ==
    LET id == IF isOfType(opts, "INSERT")
              THEN handleInsertQuery(opts, data, metadata, before)
              ELSE before
    IN  IF InsertBlockThrows(opts, data) \/ ChainThrows(opts, sql, data)
        THEN FormatResultsThrew(id)
        ELSE
        LET r == InsertBlock(opts, data)
        IN  IF isOfType(opts, "SHOWTABLES")
            THEN Formatted(Val("tables", "none", data.rows, Undefined, -1), id, 0)
            ELSE IF isOfType(opts, "DESCRIBE")
            THEN Formatted(Val("describe", "none", data.rows, Undefined, -1), id, 0)
            ELSE IF isOfType(opts, "SHOWINDEXES")
            THEN Formatted(Val("indexes", "none", data.rows, Undefined, -1), id, 0)
            ELSE IF isOfType(opts, "SELECT")
            THEN Formatted(Val("select", "none", data.rows, Undefined, -1), id, 0)
            ELSE IF isOfType(opts, "UPSERT")
            THEN Formatted(FirstRowValue(data), id, 0)
            ELSE IF isDropSchemaQuery(sql)
            THEN Formatted(FirstRowValue(data), id, IF conn.present THEN 1 ELSE 0)
            ELSE IF isCallQuery(sql)
            THEN Formatted(FirstRowValue(data), id, 0)
            ELSE IF isOfType(opts, "BULKUPDATE")
            THEN Formatted(Val("count", "none", <<>>, Undefined, Len(data.rows)), id, 0)
            ELSE IF isOfType(opts, "BULKDELETE")
            THEN Formatted(Val("count", "none", <<>>, Undefined, rowCount), id, 0)
            ELSE IF isOfType(opts, "VERSION") \/ isOfType(opts, "FOREIGNKEYS")
            THEN Formatted(Val("rows", "none", data.rows, Undefined, -1), id, 0)
            ELSE IF isOfType(opts, "INSERT") \/ isOfType(opts, "UPDATE")
            THEN Formatted(PairResult(r, rowCount), id, 0)
            ELSE IF isOfType(opts, "SHOWCONSTRAINTS")
            THEN Formatted(Val("constraints", "none", data.rows, Undefined, -1), id, 0)
            ELSE IF isOfType(opts, "RAW")
            THEN Formatted(Val("rawpair",
                               IF data.present THEN "rows" ELSE "undefined",
                               data.rows,
                               IF metadata.present THEN "metadata" ELSE Undefined,
                               -1), id, 0)
            ELSE Formatted(r, id, 0)

(***************************************************************************)
(* Query.handleShowIndexesQuery(data). A string is a list of characters.   *)
(***************************************************************************)
\* lines 432-444: the field entries made from one COLNAMES string
ColumnFields(colnames) ==
    LET \* String.replace(c, r) with a string pattern: the first c only
        replaceFirst(str, c, r) ==
            IF InSeqAt(str, c) = 0 THEN str
            ELSE SubSeq(str, 1, InSeqAt(str, c) - 1) \o r
                 \o SubSeq(str, InSeqAt(str, c) + 1, Len(str))
        spaced == replaceFirst(replaceFirst(colnames, "+", <<" ", "+">>),
                               "-", <<" ", "-">>)
        \* split(' '): the pieces between the blanks, empty pieces included
        blanks == {i \in 1..Len(spaced) : spaced[i] = " "}
        cut[k \in 0..(Cardinality(blanks) + 1)] ==
            IF k = 0 THEN 0
            ELSE IF k = Cardinality(blanks) + 1 THEN Len(spaced) + 1
            ELSE CHOOSE i \in blanks : Cardinality({j \in blanks : j < i}) = k - 1
        pieces == [k \in 1..(Cardinality(blanks) + 1) |->
                      SubSeq(spaced, cut[k - 1] + 1, cut[k] - 1)]
        \* column.trim(), and the pieces that are left non-empty
        trim(piece) == SelectSeq(piece, LAMBDA ch : ch # " ")
        columns == SelectSeq(pieces, LAMBDA piece : trim(piece) # <<>>)
    IN  [k \in 1..Len(columns) |->
            [attribute |-> replaceFirst(replaceFirst(trim(columns[k]), "-", <<>>),
                                        "+", <<>>),
             order |-> IF InSeqAt(columns[k], "-") = 0 THEN "ASC" ELSE "DESC"]]

\* lines 424-458: rows grouped by index name, in the order the names appear
handleShowIndexesQuery(data) ==
    LET firstOf(name) == CHOOSE i \in 1..Len(data) :
                            /\ data[i].name = name
                            /\ \A j \in 1..(i - 1) : data[j].name # name
        heads == SelectSeq([i \in 1..Len(data) |-> <<i, data[i]>>],
                           LAMBDA p : firstOf(p[2].name) = p[1])
        \* the fields pushed for the rows 1..i that carry the name
        fields[name \in {data[i].name : i \in 1..Len(data)}] ==
            LET upTo[i \in 0..Len(data)] ==
                    IF i = 0 THEN <<>>
                    ELSE IF data[i].name = name
                         THEN upTo[i - 1] \o ColumnFields(data[i].COLNAMES)
                         ELSE upTo[i - 1]
            IN  upTo[Len(data)]
    IN  [k \in 1..Len(heads) |->
            [primary |-> heads[k][2].keyType = "P",
             fields |-> fields[heads[k][2].name],
             name |-> heads[k][2].name,
             tableName |-> heads[k][2].tableName,
             unique |-> heads[k][2].keyType = "U",
             type |-> heads[k][2].type]]

(***************************************************************************)
(* Row coercion pass of _run (lines 159-182)                               *)
(***************************************************************************)
\* type names the parser store has a parser for
RegisteredParsers == {"DATE"}

\* coltypes[key]: coltypes is filled under each column's SQL_DESC_CONCISE_TYPE
ColType(metadata, key) ==
    LET hits == {i \in 1..Len(metadata.cols) : metadata.cols[i].concise = key}
    IN  IF hits = {} THEN Undefined
        ELSE metadata.cols[CHOOSE h \in hits : \A o \in hits : h >= o].typeName

\* the cell after coercion; the type is looked up under the column's name
CoerceCell(cell, metadata) ==
    LET t == ColType(metadata, cell[1])
    IN  IF cell[2] = Null THEN cell
        ELSE IF t \in RegisteredParsers THEN <<cell[1], cell[2], "parsed">>
        ELSE IF t = "TIMESTAMP" THEN <<cell[1], cell[2], "date">>
        ELSE IF t = "BLOB" THEN <<cell[1], cell[2], "buffer">>
        ELSE IF t \in {"CHAR () FOR BIT DATA", "VARCHAR () FOR BIT DATA"}
        THEN <<cell[1], cell[2], "hexbuffer">>
        ELSE cell

\* coltypes[column].indexOf(...) of a missing type name is a TypeError
CoerceThrows(rows, metadata) ==
    \E i \in 1..Len(rows) : \E j \in 1..Len(rows[i]) :
        /\ rows[i][j][2] # Null
        /\ ColType(metadata, rows[i][j][1]) = Undefined

CoerceRows(rows, metadata) ==
    [i \in 1..Len(rows) |->
        [j \in 1..Len(rows[i]) |-> CoerceCell(rows[i][j], metadata)]]

(***************************************************************************)
(* Builders of the query generator                                         *)
(***************************************************************************)
\* transaction k has parent k-1; transaction 1 is the outermost
Transactions ==
    LET names == <<"t1", "t2", "t3", "t4">>
    IN  {[name |-> names[k], parent |-> k > 1] : k \in 1..MaxTxDepth}

startTransactionQuery(transaction) ==
    IF transaction.parent
    THEN <<Kw("SAVE"), Kw("TRANSACTION"), quoteIdentifier(transaction.name), Punct(";")>>
    ELSE <<Kw("BEGIN"), Kw("TRANSACTION"), Punct(";")>>

commitTransactionQuery(transaction) ==
    IF transaction.parent
    THEN NoSql
    ELSE <<Kw("COMMIT"), Kw("TRANSACTION"), Punct(";")>>

rollbackTransactionQuery(transaction) ==
    IF transaction.parent
    THEN <<Kw("ROLLBACK"), Kw("TRANSACTION"), quoteIdentifier(transaction.name), Punct(";")>>
    ELSE <<Kw("ROLLBACK"), Kw("TRANSACTION"), Punct(";")>>

dropTableQuery(tableName) ==
    <<Kw("DROP"), Kw("TABLE"), quoteTable(tableName), Punct(";")>>

\* dropSchema: CALL SYSPROC.ADMIN_DROP_SCHEMA('<schema>', NULL, ? , ?)
dropSchema(schema) ==
    <<Kw("CALL"), Kw("SYSPROC.ADMIN_DROP_SCHEMA"), Punct("("), <<"str", schema>>,
      Kw("NULL"), Punct("?"), Punct("?"), Punct(")")>>

(***************************************************************************)
(* upsertQuery(tableName, insertValues, updateValues, where, model)        *)
(* An object is an ordered list of <<key, value>> pairs, in key order.     *)
(***************************************************************************)
\* this.escape(value): one literal token
escape(v) == <<"lit", v>>
\* the quoted alias `${tableName}_target` / `${tableName}_source`
quoteAlias(tableName, suffix) == <<"qid", tableName, suffix>>

\* one entry of model.rawAttributes
Attr(key, field, primaryKey, unique, autoIncrement) ==
    [key |-> key, field |-> field, primaryKey |-> primaryKey, unique |-> unique,
     autoIncrement |-> autoIncrement]
\* the pushes of lines 485-495: rawAttributes[key].field || key of each
FieldsOf(attrs) == [i \in 1..Len(attrs) |-> Or(attrs[i].field, attrs[i].key)]
InSeq(x, seq) == \E i \in 1..Len(seq) : seq[i] = x

\* lines 485-495
PrimaryKeysAttrs(model) ==
    FieldsOf(SelectSeq(model.rawAttributes, LAMBDA a : a.primaryKey))
IdentityAttrs(model) ==
    FieldsOf(SelectSeq(model.rawAttributes, LAMBDA a : a.autoIncrement))
DeclaredUniqueAttrs(model) ==
    FieldsOf(SelectSeq(model.rawAttributes, LAMBDA a : a.unique))

\* lines 498-507: the fields of the unique indexes, each added once and only
\* when the model has an attribute of that name (an index without fields has
\* the empty list here)
RECURSIVE AddIndexFields(_, _, _)
AddIndexFields(acc, fields, model) ==
    IF fields = <<>> THEN acc
    ELSE LET f == Head(fields)
             known == \E i \in 1..Len(model.rawAttributes) :
                         model.rawAttributes[i].key = f
         IN  AddIndexFields(IF ~InSeq(f, acc) /\ known THEN Append(acc, f) ELSE acc,
                            Tail(fields), model)

RECURSIVE AddIndexes(_, _, _)
AddIndexes(acc, indexes, model) ==
    IF indexes = <<>> THEN acc
    ELSE AddIndexes(IF Head(indexes).unique
                    THEN AddIndexFields(acc, Head(indexes).fields, model)
                    ELSE acc,
                    Tail(indexes), model)

UniqueAttrs(model) == AddIndexes(DeclaredUniqueAttrs(model), model.indexes, model)

\* lines 528-540 with a filter that keeps every disjunct
ValidClauseAny(clause) == TRUE

\* lines 528-540: a disjunct is dropped when one of its values is falsy
ValidClause(clause) == \A i \in 1..Len(clause) : Truthy(clause[i][2])

FilterClauses(where) == SelectSeq(where, ValidClause)

\* lines 557-566 looking at the first remaining disjunct only
JoinAttrsFirstOnly(clauses, model) ==
    IF /\ clauses # <<>>
       /\ clauses[1] # <<>>
       /\ InSeq(clauses[1][1][1], PrimaryKeysAttrs(model))
    THEN PrimaryKeysAttrs(model)
    ELSE UniqueAttrs(model)

\* lines 557-566: join on the primary keys when the first key of some remaining
\* disjunct is a primary key, else on the unique attributes
JoinAttrs(clauses, model) ==
    IF \E i \in 1..Len(clauses) :
          /\ clauses[i] # <<>>
          /\ InSeq(clauses[i][1][1], PrimaryKeysAttrs(model))
    THEN PrimaryKeysAttrs(model)
    ELSE UniqueAttrs(model)

\* array.join(separator) over token lists
RECURSIVE JoinWith(_, _)
JoinWith(parts, sep) ==
    IF parts = <<>> THEN <<>>
    ELSE IF Len(parts) = 1 THEN parts[1]
    ELSE parts[1] \o sep \o JoinWith(Tail(parts), sep)

\* lines 546-551
getJoinSnippet(tableName, array) ==
    [i \in 1..Len(array) |->
        <<quoteAlias(tableName, "_target"), Punct("."), quoteIdentifier(array[i]),
          Punct("="),
          quoteAlias(tableName, "_source"), Punct("."), quoteIdentifier(array[i])>>]

\* lines 570-581: identity columns are left out of the update list
UpdateSnippet(tableName, updateValues, model) ==
    LET kept == SelectSeq(updateValues,
                          LAMBDA kv : ~InSeq(kv[1], IdentityAttrs(model)))
    IN  JoinWith([i \in 1..Len(kept) |->
                     <<quoteAlias(tableName, "_target"), Punct("."),
                       quoteIdentifier(kept[i][1]), Punct("="), escape(kept[i][2])>>],
                 <<Punct(",")>>)

upsertQuery(tableName, insertValues, updateValues, where, model) ==
    LET insertKeysQuoted ==
            JoinWith([i \in 1..Len(insertValues) |->
                         <<quoteIdentifier(insertValues[i][1])>>], <<Punct(",")>>)
        insertValuesEscaped ==
            JoinWith([i \in 1..Len(insertValues) |-> <<escape(insertValues[i][2])>>],
                     <<Punct(",")>>)
        clauses == FilterClauses(where)
        joinCondition ==
            JoinWith(getJoinSnippet(tableName, JoinAttrs(clauses, model)), <<Kw("AND")>>)
    IN  IF Len(clauses) = 0
        THEN [threw |-> TRUE, sql |-> NoSql,
              error |-> "Primary Key or Unique key should be passed to upsert query"]
        ELSE [threw |-> FALSE, error |-> "", sql |->
               <<Kw("MERGE"), Kw("INTO"), quoteTable(tableName), Kw("AS"),
                 quoteAlias(tableName, "_target"), Kw("USING"), Punct("("),
                 Kw("VALUES"), Punct("(")>> \o insertValuesEscaped
               \o <<Punct(")"), Punct(")"), Kw("AS"), quoteAlias(tableName, "_source"),
                    Punct("(")>> \o insertKeysQuoted
               \o <<Punct(")"), Kw("ON")>> \o joinCondition
               \o <<Kw("WHEN"), Kw("MATCHED"), Kw("THEN"), Kw("UPDATE"), Kw("SET")>>
               \o UpdateSnippet(tableName, updateValues, model)
               \o <<Kw("WHEN"), Kw("NOT"), Kw("MATCHED"), Kw("THEN"), Kw("INSERT"),
                    Punct("(")>> \o insertKeysQuoted
               \o <<Punct(")"), Kw("VALUES"), Punct("(")>> \o insertValuesEscaped
               \o <<Punct(")"), Punct(";")>>]

(***************************************************************************)
(* insertQuery and bulkInsertQuery. A value hash is an ordered list of     *)
(* <<key, value>> pairs; `autoGen` is this.autoGenValue when the build     *)
(* starts, and the builds hand back its value when they end.               *)
(***************************************************************************)
\* this.autoGenValue without the increment
SameAutoGenValue(n) == n

\* this.autoGenValue++ (lines 92, 391): the value the counter has afterwards
NextAutoGenValue(n) == n + 1

\* the synthetic values of a statement text, in the order they stand in it
SyntheticValuesIn(sql) ==
    LET nums == SelectSeq(sql, LAMBDA t : t[1] = "num")
    IN  [i \in 1..Len(nums) |-> nums[i][2]]

\* insertQuery(table, valueHash, modelAttributes, options) with the default
\* options (bind parameters, omitNull off, no ignoreDuplicates); `supports`
\* holds the dialect's flags the build reads
insertQuery(autoGen, table, valueHash, modelAttributes, supports) ==
    LET \* modelAttributeMap[key] && modelAttributeMap[key].autoIncrement === true
        isAutoInc(key) ==
            \E i \in 1..Len(modelAttributes) :
                /\ modelAttributes[i].key = key \/ modelAttributes[i].field = key
                /\ modelAttributes[i].autoIncrement
        defaulted(kv) == isAutoInc(kv[1]) /\ ~Truthy(kv[2])
        \* lines 118-119: fields.splice(-1, 1) takes the column out again
        kept == SelectSeq(valueHash,
                    LAMBDA kv : ~(defaulted(kv) /\ ~supports.autoIncrementDefaultValue))
        \* this.format(value, ..., bindParam): a bind marker, NULL for no value
        bound(kv) == ~defaulted(kv) /\ kv[2] \notin {Null, Undefined}
        valueOf(kv) == IF defaulted(kv)
                       THEN (IF supports.DEFAULT THEN Kw("DEFAULT") ELSE escape(Null))
                       ELSE IF bound(kv) THEN Punct("?") ELSE escape(kv[2])
        attributes == JoinWith([i \in 1..Len(kept) |-> <<quoteIdentifier(kept[i][1])>>],
                               <<Punct(",")>>)
        values == JoinWith([i \in 1..Len(kept) |-> <<valueOf(kept[i])>>], <<Punct(",")>>)
        binds == SelectSeq(kept, bound)
        valueQuery == <<Kw("INSERT"), Kw("INTO"), quoteTable(table), Punct("(")>>
                      \o attributes \o <<Punct(")"), Kw("VALUES"), Punct("(")>>
                      \o values \o <<Punct(")")>>
        emptyQuery == <<Kw("INSERT"), Kw("INTO"), quoteTable(table)>>
                      \o (IF supports.valuesEmpty
                          THEN <<Kw("VALUES"), Punct("("), <<"num", autoGen>>, Punct(")")>>
                          ELSE <<>>)
    IN  [query |-> <<Kw("SELECT"), Punct("*"), Kw("FROM"), Kw("FINAL"), Kw("TABLE"),
                     Punct("(")>>
                   \o (IF Len(attributes) > 0 THEN valueQuery ELSE emptyQuery)
                   \o <<Punct(")"), Punct(";")>>,
         bind |-> [i \in 1..Len(binds) |-> binds[i][2]],
         autoGenValue |-> IF supports.valuesEmpty THEN NextAutoGenValue(autoGen)
                          ELSE autoGen]

\* bulkInsertQuery(tableName, attrValueHashes, options, attributes)
bulkInsertQuery(autoGen, tableName, attrValueHashes, returning, attributes) ==
    LET n == Len(attrValueHashes)
        isAutoInc(key) ==
            \E i \in 1..Len(attributes) :
                attributes[i].key = key /\ attributes[i].autoIncrement
        \* line 390: the only field is a null auto-increment attribute
        special(h) == Len(h) = 1 /\ isAutoInc(h[1][1]) /\ h[1][2] = Null
        \* the counter before row i is looked at
        counter[i \in 1..(n + 1)] ==
            IF i = 1 THEN autoGen
            ELSE IF special(attrValueHashes[i - 1])
                 THEN NextAutoGenValue(counter[i - 1])
                 ELSE counter[i - 1]
        specials == SelectSeq([i \in 1..n |-> <<i, attrValueHashes[i]>>],
                              LAMBDA p : special(p[2]))
        valuesForEmptyQuery ==
            [k \in 1..Len(specials) |->
                <<Punct("("), <<"num", counter[specials[k][1]]>>, Punct(")")>>]
        \* lines 396-403: the keys of one row added to allAttributes
        addKeys(acc, h) ==
            LET step[j \in 0..Len(h)] ==
                    IF j = 0 THEN acc
                    ELSE IF /\ ~InSeq(h[j][1], step[j - 1])
                            /\ ~(h[j][2] = Null /\ isAutoInc(h[j][1]))
                         THEN Append(step[j - 1], h[j][1])
                         ELSE step[j - 1]
            IN  step[Len(h)]
        all[i \in 0..n] ==
            IF i = 0 THEN <<>>
            ELSE IF special(attrValueHashes[i]) THEN all[i - 1]
                 ELSE addKeys(all[i - 1], attrValueHashes[i])
        allAttributes == all[n]
        \* attrValueHash[key], undefined when the row has no such key
        valueAt(h, key) == IF \E j \in 1..Len(h) : h[j][1] = key
                           THEN h[CHOOSE j \in 1..Len(h) : h[j][1] = key][2]
                           ELSE Undefined
        \* lines 410-415: one tuple for every row of attrValueHashes
        tuples == [i \in 1..n |->
                     <<Punct("(")>>
                     \o JoinWith([k \in 1..Len(allAttributes) |->
                                     <<escape(valueAt(attrValueHashes[i],
                                                      allAttributes[k]))>>],
                                 <<Punct(",")>>)
                     \o <<Punct(")")>>]
        insert == <<Kw("INSERT"), Kw("INTO"), quoteTable(tableName), Punct("(")>>
                  \o JoinWith([k \in 1..Len(allAttributes) |->
                                  <<quoteIdentifier(allAttributes[k])>>], <<Punct(",")>>)
                  \o <<Punct(")"), Kw("VALUES")>> \o JoinWith(tuples, <<Punct(",")>>)
        query == IF returning
                 THEN <<Kw("SELECT"), Punct("*"), Kw("FROM"), Kw("FINAL"), Kw("TABLE"),
                        Punct("(")>> \o insert \o <<Punct(")"), Punct(";")>>
                 ELSE insert \o <<Punct(";")>>
        allQueries ==
            (IF Len(valuesForEmptyQuery) > 0
             THEN <<<<Kw("INSERT"), Kw("INTO"), quoteTable(tableName), Kw("VALUES")>>
                    \o JoinWith(valuesForEmptyQuery, <<Punct(",")>>)>>
             ELSE <<>>)
            \o (IF Len(allAttributes) > 0 THEN <<query>> ELSE <<>>)
    IN  [query |-> JoinWith(allQueries, <<Punct(";")>>),
         bind |-> <<>>,
         autoGenValue |-> counter[n + 1]]

\* updateQuery(tableName, attrValueHash, where, options, attributes) with bind
\* parameters; `limit` is options.limit. The UPDATE text of the base generator
\* (super.updateQuery) is UPDATE <table> SET <assignments> WHERE <conditions>.
updateQuery(tableName, attrValueHash, where, limit) ==
    LET values == JoinWith([i \in 1..Len(attrValueHash) |->
                               <<quoteIdentifier(attrValueHash[i][1]), Punct("="),
                                 Punct("?")>>], <<Punct(",")>>)
        whereQuery == IF where = <<>> THEN <<>>
                      ELSE <<Kw("WHERE")>>
                           \o JoinWith([i \in 1..Len(where) |->
                                           <<quoteIdentifier(where[i][1]), Punct("="),
                                             Punct("?")>>], <<Kw("AND")>>)
        finalTable(query) ==
            <<Kw("SELECT"), Punct("*"), Kw("FROM"), Kw("FINAL"), Kw("TABLE"), Punct("(")>>
            \o query \o <<Punct(")")>>
    IN  IF ~Truthy(limit)
        THEN finalTable(<<Kw("UPDATE"), quoteTable(tableName), Kw("SET")>> \o values
                        \o whereQuery)
        ELSE finalTable(<<Kw("UPDATE"), Punct("("), Kw("SELECT"), Punct("*"), Kw("FROM"),
                          quoteTable(tableName)>> \o whereQuery
                        \o <<Kw("FETCH"), Kw("NEXT"), escape(limit), Kw("ROWS"),
                             Kw("ONLY"), Punct(")"), Kw("SET")>> \o values)

(***************************************************************************)
(* Requests: the statements and options run is called with                 *)
(***************************************************************************)
NoParams == [present |-> FALSE, first |-> Undefined]
Params(first) == [present |-> TRUE, first |-> first]

BaseOpts ==
    [type |-> "RAW", plain |-> FALSE, hasModel |-> FALSE, uniqueKeys |-> EmptyProps,
     fields |-> [present |-> FALSE, list |-> <<>>], where |-> NoObj,
     instance |-> NoObj, autoInc |-> Undefined, alias |-> Undefined,
     txName |-> Undefined]

Req(sql, opts, parameters, op, nested) ==
    [sql |-> sql, opts |-> opts, parameters |-> parameters, op |-> op,
     nested |-> nested]
NoReq == Req(NoSql, BaseOpts, NoParams, "none", FALSE)

\* the transaction statements; the query interface passes the savepoint's name
\* in options.transaction.name
TxRequests ==
    LET opts(t) == [BaseOpts EXCEPT !.txName = IF t.parent THEN t.name ELSE Undefined]
    IN  UNION {{Req(startTransactionQuery(t), opts(t), NoParams, "begin", t.parent),
                Req(commitTransactionQuery(t), opts(t), NoParams, "commit", t.parent),
                Req(rollbackTransactionQuery(t), opts(t), NoParams, "rollback",
                    t.parent)} : t \in Transactions}

\* the text insertQuery produces for one column (lines 76, 146-147)
InsertStatement ==
    <<Kw("SELECT"), Punct("*"), Kw("FROM"), Kw("FINAL"), Kw("TABLE"), Punct("("),
      Kw("INSERT"), Kw("INTO"), quoteTable("T"), Punct("("), quoteIdentifier("email"),
      Punct(")"), Kw("VALUES"), Punct("("), Punct("?"), Punct(")"), Punct(")"),
      Punct(";")>>

\* the declared unique key of the model used by the requests
UserUniqueKeys ==
    [n \in {"uk_email"} |-> [column |-> "email", msg |-> "email taken"]]

\* a model whose auto-increment attribute is `autoInc`, stored in column `alias`
InsertOpts(autoInc, alias, bound, plain) ==
    [BaseOpts EXCEPT !.type = "INSERT", !.plain = plain, !.hasModel = TRUE,
                     !.uniqueKeys = UserUniqueKeys,
                     !.fields = [present |-> TRUE, list |-> <<"email">>],
                     !.instance = IF bound THEN Obj([c \in {"email"} |-> "x@y.com"])
                                  ELSE NoObj,
                     !.autoInc = autoInc, !.alias = alias]

\* the calls of run: transaction statements, inserts (bound to an instance
\* with and without an aliased id column, and plain without instance), DROP
\* TABLE, the schema drop, CREATE TABLE, SELECT with and without FROM (in
\* upper case and in lower case), DELETE,
\* an update without row limit (of a bound instance, and without instance)
Requests ==
    TxRequests \cup
    {Req(updateQuery("T", <<<<"email", "x@y.com">>>>, <<<<"id", "7">>>>, Undefined),
         [BaseOpts EXCEPT !.type = "UPDATE", !.instance = i],
         Params("x@y.com"), "data", FALSE) :
        i \in {NoObj, Obj([c \in {"email"} |-> "x@y.com"])}} \cup
    {Req(InsertStatement, InsertOpts("id", Undefined, TRUE, FALSE),
         Params("x@y.com"), "data", FALSE),
     Req(InsertStatement, InsertOpts("userId", "user_id", TRUE, FALSE),
         Params("x@y.com"), "data", FALSE),
     Req(InsertStatement, InsertOpts("id", Undefined, FALSE, TRUE),
         Params("x@y.com"), "data", FALSE),
     Req(dropTableQuery("T"), BaseOpts, NoParams, "data", FALSE),
     Req(dropSchema("S"), BaseOpts, Params("ERRORSCHEMA"), "data", FALSE),
     Req(<<Kw("CREATE"), Kw("TABLE"), quoteTable("T"), Punct("("), Punct(")")>>,
         BaseOpts, NoParams, "data", FALSE),
     Req(<<Kw("SELECT"), Punct("*"), Kw("FROM"), quoteTable("T")>>,
         [BaseOpts EXCEPT !.type = "SELECT"], NoParams, "data", FALSE),
     Req(<<Kw("SELECT"), Punct("1"), Punct(";")>>,
         [BaseOpts EXCEPT !.type = "SELECT"], NoParams, "data", FALSE),
     Req(<<Kw("select"), Punct("*"), Kw("from"), quoteTable("T")>>,
         [BaseOpts EXCEPT !.type = "SELECT"], NoParams, "data", FALSE),
     Req(<<Kw("DELETE"), Kw("FROM"), quoteTable("T")>>,
         [BaseOpts EXCEPT !.type = "BULKDELETE"], NoParams, "data", FALSE)}

(***************************************************************************)
(* What the driver may hand to a callback                                  *)
(***************************************************************************)
DriverErrors ==
    {MkErr(FALSE, <<>>, FALSE, NoSql),
     MkErr(TRUE, <<>>, FALSE, NoSql),
     MkErr(TRUE, <<VendorText.n204[1], "S.T", VendorText.n204[2]>>, FALSE, NoSql),
     MkErr(TRUE, <<VendorText.n204[1], "S.T", VendorText.n204[2]>>, TRUE,
           <<Kw("ALTER"), Kw("TABLE"), quoteTable("T")>>),
     MkErr(TRUE, <<"SQL0443N">>, FALSE, NoSql),
     MkErr(TRUE, <<"SQL0601N">>, FALSE, NoSql),
     MkErr(TRUE, <<"SQL0911N", "Reason code \"2\"">>, FALSE, NoSql),
     MkErr(TRUE, <<"SQL0911N", "Reason code \"68\"">>, FALSE, NoSql),
     MkErr(TRUE, <<"SQL0605W">>, FALSE, NoSql),
     MkErr(TRUE, <<VendorText.u803[1], "2", VendorText.u803[2], "S", "T",
                   VendorText.u803[3]>>, FALSE, NoSql),
     MkErr(TRUE, <<"SQL0530N">>, FALSE, NoSql),
     MkErr(TRUE, <<"SQL0104N">>, FALSE, NoSql)}

\* what conn.querySync returns for the catalog query: a list of index names
CatalogResults == {<<>>, <<"uk_email">>, <<"other">>}
NoConn == [present |-> FALSE, catalog |-> <<>>]
Conn(catalog) == [present |-> TRUE, catalog |-> catalog]

Cell(c, v) == <<c, v, "raw">>

\* what result.fetchAllSync() may return
FetchResults ==
    LET sample == <<Cell("id", "11"), Cell("name", Null)>>
        nulls == <<Cell("id", Null), Cell("name", Null)>>
    IN  {<<>>, <<sample>>, <<nulls>>, <<sample, nulls>>}

\* what result.getColumnMetadataSync() may return for those rows: an array
\* with one entry per column (an array has no id property);
\* SQL_DESC_CONCISE_TYPE holds the column's name or a type code
MetaResults(rows) ==
    {Meta(Undefined,
          [j \in 1..Len(rows[1]) |->
              [name |-> rows[1][j][1],
               concise |-> IF keyed = "name" THEN rows[1][j][1] ELSE "4",
               typeName |-> "INTEGER"]]) : keyed \in {"name", "code"}}

(***************************************************************************)
(* Query._run: the parts of the callbacks                                  *)
(***************************************************************************)
\* lines 121-136 without the table-not-found case of line 122
IsBenignNoDrop(message, sql) ==
    IF Contains(message, "SQL0443N") THEN TRUE
    ELSE IF Contains(message, "SQL0601N") THEN TRUE
    ELSE IF Contains(message, "SQL0911N") THEN Contains(message, "Reason code \"2\"")
    ELSE IF Contains(message, "SQL0605W") THEN TRUE
    ELSE FALSE

\* lines 121-136: the execute errors that are ignored
IsBenign(message, sql) ==
    IF Contains(message, "SQL0204N") /\ StartsWith(sql, <<Kw("DROP")>>) THEN TRUE
    ELSE IF Contains(message, "SQL0443N") THEN TRUE
    ELSE IF Contains(message, "SQL0601N") THEN TRUE
    ELSE IF Contains(message, "SQL0911N") THEN Contains(message, "Reason code \"2\"")
    ELSE IF Contains(message, "SQL0605W") THEN TRUE
    ELSE FALSE

\* lines 105-110: a SELECT without FROM gets the dummy table appended;
\* indexOf(' FROM ', 8) looks for the upper-case word after the first eight
\* characters (SELECT and one more token)
PrepareText(opts, sql) ==
    IF isOfType(opts, "SELECT") /\ ~\E i \in 3..Len(sql) : sql[i] = Kw("FROM")
    THEN (IF sql # <<>> /\ sql[Len(sql)] = Punct(";")
          THEN SubSeq(sql, 1, Len(sql) - 1) ELSE sql)
         \o <<Kw("FROM"), Kw("SYSIBM.SYSDUMMY1")>>
    ELSE sql

NoErr == MkErr(FALSE, <<>>, FALSE, NoSql)
NoError == SemanticError("none", NoErr, EmptyProps, <<>>, Undefined, Undefined,
                         Undefined, <<>>)

\* the state of one run after a callback, as a record
Effect(o, v, e, u, s, r, c, t, id) ==
    [outcome |-> o, value |-> v, error |-> e, uncaught |-> u, stmt |-> s,
     result |-> r, calls |-> c, translations |-> t, instanceId |-> id]

\* the error argument of a callback: none, or an error object
Reported(hasErr, err) == [hasErr |-> hasErr, err |-> err]
NotReported == Reported(FALSE, NoErr)

\* reject(this.formatError(err)) in the callbacks of the transaction
\* primitives (lines 59-60 and alike): formatError runs first and may throw,
\* in which case reject is never reached
TxRejectEffect(r, cs, id, err) ==
    LET fe == FormatError(err, NoConn, NoParams, r.opts)
    IN  IF fe.threw
        THEN Effect("pending", NoValue, NoError, TRUE, "none", "none", cs, 1, id)
        ELSE Effect("rejected", NoValue, fe, FALSE, "none", "none", cs, 1, id)

\* resolve(this.formatResults()) in the same callbacks (lines 61-62 and alike)
TxResolveEffect(r, sql, cs, id) ==
    LET fr == FormatResults(r.opts, sql, NoData, -1, NoMeta, NoConn, id)
    IN  IF fr.threw
        THEN Effect("pending", NoValue, NoError, TRUE, "none", "none", cs, 0,
                    fr.instanceId)
        ELSE Effect("resolved", fr.value, NoError, FALSE, "none", "none", cs, 0,
                    fr.instanceId)

\* lines 112-114 when prepare failed: reject(this.formatError(err)), and then
\* stmt.execute on the statement handle that does not exist, a TypeError
PrepareFailedEffect(r, cs, id, err) ==
    LET fe == FormatError(err, NoConn, NoParams, r.opts)
    IN  IF fe.threw
        THEN Effect("pending", NoValue, NoError, TRUE, "none", "none", cs, 1, id)
        ELSE Effect("rejected", NoValue, fe, TRUE, "none", "none", cs, 1, id)

\* what the driver hands to the execute callback, and what the driver
\* functions called from it return
Answer(hasErr, err, hasResult, rows, meta, affected, catalog) ==
    [hasErr |-> hasErr, err |-> err, hasResult |-> hasResult, rows |-> rows,
     meta |-> meta, affected |-> affected, catalog |-> catalog]

\* lines 121-140: the error is one of the ignored ones
Ignored(sql, d) == d.hasErr /\ MessageTruthy(d.err) /\ IsBenign(d.err.message, sql)

IsDelete(sql) == StartsWith(sql, <<Kw("DELETE"), Kw("FROM")>>)
\* lines 146-157: data after the result was read
ExecData(sql, d) == IF d.hasResult /\ ~IsDelete(sql) THEN d.rows ELSE <<>>
\* lines 149-157: the driver calls that read the result
ExecReadCalls(sql, d) ==
    IF ~d.hasResult THEN <<>>
    ELSE IF IsDelete(sql) THEN <<"getAffectedRowsSync", "result.closeSync">>
    ELSE <<"fetchAllSync", "getColumnMetadataSync", "result.closeSync">>

\* line 138: resolve(this.formatResults([], 0)) for an ignored error
IgnoredResults(r, sql, id) ==
    FormatResults(r.opts, sql, Data(<<>>), 0, NoMeta, NoConn, id)

\* lines 183 and 185: the formatResults call that ends the no-error branch
FinalResults(r, sql, id, d) ==
    IF Len(ExecData(sql, d)) > 0
    THEN FormatResults(r.opts, sql, Data(CoerceRows(ExecData(sql, d), d.meta)),
                       Len(ExecData(sql, d)), d.meta, Conn(<<>>), id)
    ELSE FormatResults(r.opts, sql, Data(<<>>),
                       IF d.hasResult /\ IsDelete(sql) THEN d.affected ELSE 0,
                       NoMeta, NoConn, id)

\* lines 141-144: err.sql = sql; stmt.closeSync(); reject(this.formatError(...))
ExecuteRejectEffect(r, cs, id, d) ==
    LET fe == FormatError([d.err EXCEPT !.hasSql = TRUE, !.sql = r.sql],
                          Conn(d.catalog), r.parameters, r.opts)
        cs1 == cs \o <<"stmt.closeSync">>
                  \o (IF fe.lookups # <<>> THEN <<"querySync">> ELSE <<>>)
        res == IF d.hasResult THEN "open" ELSE "none"
    IN  IF fe.threw
        THEN Effect("pending", NoValue, NoError, TRUE, "closed", res, cs1, 1, id)
        ELSE Effect("rejected", NoValue, fe, FALSE, "closed", res, cs1, 1, id)

\* lines 145-187: the no-error branch; `settled` tells that line 138 resolved
\* the promise already, with value `v0`
ExecuteReadEffect(r, sql, cs, id, d, settled, v0) ==
    LET cth == /\ Len(ExecData(sql, d)) > 0
               /\ CoerceThrows(ExecData(sql, d), d.meta)
        fr == FinalResults(r, sql, id, d)
        threw == cth \/ fr.threw
        cs1 == cs \o ExecReadCalls(sql, d) \o <<"stmt.closeSync">>
                  \o (IF ~cth /\ fr.cleanup > 0 THEN <<"querySync">> ELSE <<>>)
    IN  Effect(IF settled \/ ~threw THEN "resolved" ELSE "pending",
               IF settled THEN v0 ELSE IF threw THEN NoValue ELSE fr.value,
               NoError, threw, "closed",
               IF d.hasResult THEN "closed" ELSE "none",
               cs1, 0, IF cth THEN id ELSE fr.instanceId)

\* lines 114-188: the callback of execute
ExecuteCallbackEffect(r, sql, cs, id, d) ==
    IF Ignored(sql, d)
    THEN IF IgnoredResults(r, sql, id).threw
         THEN Effect("pending", NoValue, NoError, TRUE, "open",
                     IF d.hasResult THEN "open" ELSE "none", cs, 0,
                     IgnoredResults(r, sql, id).instanceId)
         ELSE ExecuteReadEffect(r, sql, cs, IgnoredResults(r, sql, id).instanceId, d,
                                TRUE, IgnoredResults(r, sql, id).value)
    ELSE IF d.hasErr
    THEN ExecuteRejectEffect(r, cs, id, d)
    ELSE ExecuteReadEffect(r, sql, cs, id, d, FALSE, NoValue)

(***************************************************************************)
(* The state machine of the runs on one connection                         *)
(***************************************************************************)
Fresh == Effect("none", NoValue, NoError, FALSE, "none", "none", <<>>, 0, Unset)

\* the per-run variables take the values of an effect record
Apply(q, eff) ==
    /\ outcome' = [outcome EXCEPT ![q] = eff.outcome]
    /\ value' = [value EXCEPT ![q] = eff.value]
    /\ error' = [error EXCEPT ![q] = eff.error]
    /\ uncaught' = [uncaught EXCEPT ![q] = eff.uncaught]
    /\ stmt' = [stmt EXCEPT ![q] = eff.stmt]
    /\ result' = [result EXCEPT ![q] = eff.result]
    /\ calls' = [calls EXCEPT ![q] = eff.calls]
    /\ translations' = [translations EXCEPT ![q] = eff.translations]
    /\ instanceId' = [instanceId EXCEPT ![q] = eff.instanceId]

\* a callback ends the run: its effect, and the error the driver passed in
Finish(q, eff, reported) ==
    /\ Apply(q, eff)
    /\ pc' = [pc EXCEPT ![q] = IF eff.outcome = "pending" THEN "hung"
                                ELSE "settled"]
    /\ driverErr' = [driverErr EXCEPT ![q] = reported]
    /\ UNCHANGED savepoint

\* a callback issues the next driver call, with the name `arg` as an argument
\* besides the callback unless `arg` is undefined, and the run waits at `at`
Issue(q, name, at, arg) ==
    /\ calls' = [calls EXCEPT ![q] = calls[q] \o <<name>>]
    /\ pc' = [pc EXCEPT ![q] = at]
    /\ savepoint' = IF arg = Undefined THEN savepoint
                    ELSE [savepoint EXCEPT ![q] = arg]
    /\ UNCHANGED <<outcome, value, error, uncaught, result, translations,
                   instanceId, driverErr>>

InitRuns ==
    /\ lockHolder = NoQuery
    /\ lockQueue = <<>>
    /\ pc = [q \in Queries |-> "idle"]
    /\ req = [q \in Queries |-> NoReq]
    /\ thisSql = [q \in Queries |-> NoSql]
    /\ outcome = [q \in Queries |-> Fresh.outcome]
    /\ value = [q \in Queries |-> Fresh.value]
    /\ error = [q \in Queries |-> Fresh.error]
    /\ uncaught = [q \in Queries |-> Fresh.uncaught]
    /\ stmt = [q \in Queries |-> Fresh.stmt]
    /\ result = [q \in Queries |-> Fresh.result]
    /\ calls = [q \in Queries |-> Fresh.calls]
    /\ translations = [q \in Queries |-> Fresh.translations]
    /\ instanceId = [q \in Queries |-> Fresh.instanceId]
    /\ driverErr = [q \in Queries |-> NotReported]
    /\ savepoint = [q \in Queries |-> Undefined]
    /\ autoGenValue = [g \in Generators |-> 1]
    /\ emitted = [g \in Generators |-> <<>>]

Init == InitRuns /\ call = [op |-> "none"]

\* the lock of the connection: free, and q is first in line
LockFree(q) == lockHolder = NoQuery /\ lockQueue # <<>> /\ Head(lockQueue) = q

\* run (line 195) without Promise.using: _run starts without the lock
RunGuardNoLock(q) == TRUE

\* run (line 195): _run starts once the lock is held
RunGuard(q) == LockFree(q)

\* run(sql, parameters) is called: the caller queues for the connection's lock
Call(q) ==
    /\ pc[q] = "idle"
    /\ \E r \in Requests :
          /\ r.sql # NoSql
          /\ req' = [req EXCEPT ![q] = r]
    /\ pc' = [pc EXCEPT ![q] = "waiting"]
    /\ lockQueue' = Append(lockQueue, q)
    /\ Apply(q, [Fresh EXCEPT !.outcome = "pending"])
    /\ UNCHANGED <<call, autoGenValue, emitted, lockHolder, thisSql, driverErr,
                   savepoint>>

\* committing a transaction that has a parent: there is no SQL, nothing is run
NestedCommit(q) ==
    /\ pc[q] = "idle"
    /\ \E r \in Requests :
          /\ r.sql = NoSql
          /\ req' = [req EXCEPT ![q] = r]
    /\ pc' = [pc EXCEPT ![q] = "skipped"]
    /\ Apply(q, [Fresh EXCEPT !.outcome = "resolved"])
    /\ UNCHANGED <<call, autoGenValue, emitted, lockHolder, lockQueue, thisSql,
                   driverErr, savepoint>>

Return(q) ==
    /\ pc[q] = "skipped"
    /\ pc' = [pc EXCEPT ![q] = "idle"]
    /\ req' = [req EXCEPT ![q] = NoReq]
    /\ Apply(q, Fresh)
    /\ UNCHANGED <<call, autoGenValue, emitted, lockHolder, lockQueue, thisSql,
                   driverErr, savepoint>>

\* lines 57-112 without the SAVE TRANSACTION branch
FirstCallNoSave(sql) ==
    IF StartsWith(sql, <<Kw("BEGIN"), Kw("TRANSACTION")>>)
    THEN <<"beginTransaction", "begin", FALSE>>
    ELSE IF StartsWith(sql, <<Kw("COMMIT"), Kw("TRANSACTION")>>)
    THEN <<"commitTransaction", "commit", FALSE>>
    ELSE IF StartsWith(sql, <<Kw("ROLLBACK"), Kw("TRANSACTION")>>)
    THEN <<"rollbackTransaction", "rollback", FALSE>>
    ELSE <<"prepare", "prepare", FALSE>>

\* the first driver call of _run (lines 57, 65, 73, 81, 112), the callback
\* _run then waits for, and whether this.options.transaction.name is handed
\* over with the callback (line 94)
FirstCall(sql) ==
    IF StartsWith(sql, <<Kw("BEGIN"), Kw("TRANSACTION")>>)
    THEN <<"beginTransaction", "begin", FALSE>>
    ELSE IF StartsWith(sql, <<Kw("COMMIT"), Kw("TRANSACTION")>>)
    THEN <<"commitTransaction", "commit", FALSE>>
    ELSE IF StartsWith(sql, <<Kw("ROLLBACK"), Kw("TRANSACTION")>>)
    THEN <<"rollbackTransaction", "rollback", FALSE>>
    ELSE IF StartsWith(sql, <<Kw("SAVE"), Kw("TRANSACTION")>>)
    THEN <<"commitTransaction", "saveCommit", TRUE>>
    ELSE <<"prepare", "prepare", FALSE>>

\* the lock is granted and _run runs up to its first driver call
Acquire(q) ==
    /\ pc[q] = "waiting"
    /\ RunGuard(q)
    /\ lockHolder' = q
    /\ lockQueue' = SelectSeq(lockQueue, LAMBDA x : x # q)
    /\ thisSql' = [thisSql EXCEPT ![q] =
                      IF FirstCall(req[q].sql)[1] = "prepare"
                      THEN PrepareText(req[q].opts, req[q].sql)
                      ELSE req[q].sql]
    /\ Issue(q, FirstCall(req[q].sql)[1], FirstCall(req[q].sql)[2],
             IF FirstCall(req[q].sql)[3] THEN req[q].opts.txName ELSE Undefined)
    /\ UNCHANGED <<call, autoGenValue, emitted, req, stmt>>

\* the callback of beginTransaction / commitTransaction / rollbackTransaction
\* (lines 58-64, 66-72, 74-80, 86-92)
TxCallback(q) ==
    /\ pc[q] \in {"begin", "commit", "rollback", "saveBegin"}
    /\ \/ \E err \in DriverErrors :
             Finish(q, TxRejectEffect(req[q], calls[q], instanceId[q], err),
                    Reported(TRUE, err))
       \/ Finish(q, TxResolveEffect(req[q], thisSql[q], calls[q], instanceId[q]),
                 NotReported)
    /\ UNCHANGED <<call, autoGenValue, emitted, lockHolder, lockQueue, req, thisSql>>

\* lines 82-94: the callback of the commit issued for SAVE TRANSACTION
SaveCommitCallback(q) ==
    /\ pc[q] = "saveCommit"
    /\ \/ \E err \in DriverErrors :
             Finish(q, TxRejectEffect(req[q], calls[q], instanceId[q], err),
                    Reported(TRUE, err))
       \/ Issue(q, "beginTransaction", "saveBegin", Undefined) /\ UNCHANGED stmt
    /\ UNCHANGED <<call, autoGenValue, emitted, lockHolder, lockQueue, req, thisSql>>

\* lines 112-114: the callback of prepare
PrepareCallback(q) ==
    /\ pc[q] = "prepare"
    /\ \/ \E err \in DriverErrors :
             Finish(q, PrepareFailedEffect(req[q], calls[q], instanceId[q], err),
                    Reported(TRUE, err))
       \/ /\ Issue(q, "execute", "execute", Undefined)
          /\ stmt' = [stmt EXCEPT ![q] = "open"]
    /\ UNCHANGED <<call, autoGenValue, emitted, lockHolder, lockQueue, req, thisSql>>

\* the answers of the driver to execute; the driver functions the callback
\* does not call are not asked for an answer: the result is read only when no
\* error is left (line 145), the catalog only for a unique violation (line 333)
ExecuteAnswers(sql) ==
    LET ignored(hasErr, err) == hasErr /\ MessageTruthy(err) /\ IsBenign(err.message, sql)
        reads(hasErr, err) == hasErr => ignored(hasErr, err)
        looksUp(hasErr, err) == /\ hasErr /\ ~ignored(hasErr, err)
                                /\ err.hasMessage /\ MatchUnique(err.message).matched
    IN
    UNION {
      UNION {
        UNION {
          {Answer(hasErr, err, hasResult, rows, meta, affected, catalog) :
              meta \in IF rows # <<>> THEN MetaResults(rows) ELSE {Meta(Undefined, <<>>)},
              affected \in IF hasResult /\ IsDelete(sql) /\ reads(hasErr, err)
                           THEN {0, 2} ELSE {0},
              catalog \in IF looksUp(hasErr, err) THEN CatalogResults ELSE {<<>>}} :
          rows \in IF hasResult /\ ~IsDelete(sql) /\ reads(hasErr, err)
                   THEN FetchResults ELSE {<<>>}} :
        err \in IF hasErr THEN DriverErrors ELSE {NoErr}, hasResult \in BOOLEAN} :
      hasErr \in BOOLEAN}

\* lines 114-188: the callback of execute
ExecuteCallback(q) ==
    /\ pc[q] = "execute"
    /\ \E d \in ExecuteAnswers(thisSql[q]) :
          Finish(q, ExecuteCallbackEffect(req[q], thisSql[q], calls[q], instanceId[q], d),
                 Reported(d.hasErr, d.err))
    /\ UNCHANGED <<call, autoGenValue, emitted, lockHolder, lockQueue, req, thisSql>>

\* the promise of _run has settled: Promise.using releases the lock and run
\* settles the same way; the Query object is then done with
Release(q) ==
    /\ pc[q] = "settled"
    /\ lockHolder' = IF lockHolder = q THEN NoQuery ELSE lockHolder
    /\ pc' = [pc EXCEPT ![q] = "idle"]
    /\ req' = [req EXCEPT ![q] = NoReq]
    /\ thisSql' = [thisSql EXCEPT ![q] = NoSql]
    /\ driverErr' = [driverErr EXCEPT ![q] = NotReported]
    /\ savepoint' = [savepoint EXCEPT ![q] = Undefined]
    /\ Apply(q, Fresh)
    /\ UNCHANGED <<call, autoGenValue, emitted, lockQueue>>

Next ==
    \E q \in Queries :
       \/ Call(q)
       \/ NestedCommit(q)
       \/ Return(q)
       \/ Acquire(q)
       \/ TxCallback(q)
       \/ SaveCommitCallback(q)
       \/ PrepareCallback(q)
       \/ ExecuteCallback(q)
       \/ Release(q)

Spec == Init /\ [][Next]_vars

\* every callback the driver owes is delivered, the lock is granted when it is
\* free, and a settled promise is followed by the release of the lock
FairSpec ==
    /\ Spec
    /\ \A q \in Queries :
          /\ WF_vars(Acquire(q))
          /\ WF_vars(TxCallback(q))
          /\ WF_vars(SaveCommitCallback(q))
          /\ WF_vars(PrepareCallback(q))
          /\ WF_vars(ExecuteCallback(q))
          /\ WF_vars(Release(q))

(***************************************************************************)
(* Direct calls of formatResults, formatError and upsertQuery              *)
(***************************************************************************)
MaxClauses == 2
\* columns of one index
MaxColumns == 2

Input(op, in) == [op |-> op, done |-> FALSE, in |-> in, out |-> [threw |-> FALSE]]

\* formatResults for an insert: bound to an instance (with and without an
\* aliased id column) or not; no data, no rows, or a first row in which each of
\* id, userId and user_id is missing, null, zero or an id of its own; no
\* metadata, or metadata without id, with id 0, with id 22
FormatResultsInputs ==
    LET cells(c, v) == IF v = "absent" THEN <<>> ELSE <<Cell(c, v)>>
        rows == {cells("id", a) \o cells("userId", b) \o cells("user_id", c) :
                    a \in {"absent", Null, "0", "7"},
                    b \in {"absent", Null, "0", "8"},
                    c \in {"absent", Null, "0", "9"}}
    IN  {Input("formatResults", [opts |-> o, data |-> d, metadata |-> m]) :
            o \in {InsertOpts("id", Undefined, TRUE, FALSE),
                   InsertOpts("userId", "user_id", TRUE, FALSE),
                   InsertOpts("id", Undefined, FALSE, FALSE),
                   InsertOpts("id", Undefined, FALSE, TRUE)},
            d \in {NoData, Data(<<>>)} \cup {Data(<<r>>) : r \in rows},
            m \in {NoMeta, Meta(Undefined, <<>>), Meta("0", <<>>), Meta("22", <<>>)}}

\* formatError for a unique violation of index 2 or of index 12 on table S.T,
\* with and without connection, where-clause, instance value and parameters
FormatErrorInputs ==
    LET violations ==
            {MkErr(TRUE, <<VendorText.u803[1]>> \o iid
                         \o <<VendorText.u803[2], "S", "T", VendorText.u803[3]>>,
                   TRUE, InsertStatement) : iid \in {<<"2">>, <<"1", "2">>}}
        wheres == {NoObj, Obj([c \in {"email"} |-> "x@y.com"]),
                   Obj([c \in {"email"} |-> Null]), Obj([c \in {"name"} |-> "bob"])}
        instances == {NoObj, Obj([c \in {"name"} |-> "bob"])}
                       \cup {Obj([c \in {"email"} |-> v]) :
                                v \in {"i@y.com", "", "0", Null}}
        options ==
            {[BaseOpts EXCEPT !.type = "INSERT", !.hasModel = TRUE,
                              !.uniqueKeys = [n \in {"uk_email"} |->
                                                 [column |-> "email", msg |-> km]],
                              !.fields = [present |-> f, list |-> <<"name", "email">>],
                              !.where = w, !.instance = i] :
                km \in {Undefined, "email taken"}, f \in BOOLEAN,
                w \in wheres, i \in instances}
    IN  {Input("formatError", [err |-> e, conn |-> c, parameters |-> ps, opts |-> o]) :
            e \in violations,
            c \in {NoConn} \cup {Conn(r) : r \in CatalogResults},
            ps \in {NoParams, Params("p@y.com")},
            o \in options}

\* a model with an identity primary key, a unique attribute and a unique
\* index over two attributes; and the same model without the primary key
KeyedModel ==
    [rawAttributes |-> <<Attr("id", Undefined, TRUE, FALSE, TRUE),
                         Attr("email", Undefined, FALSE, TRUE, FALSE),
                         Attr("a", Undefined, FALSE, FALSE, FALSE),
                         Attr("b", Undefined, FALSE, FALSE, FALSE)>>,
     indexes |-> <<[unique |-> TRUE, fields |-> <<"a", "b">>]>>]
UniqueOnlyModel ==
    [rawAttributes |-> <<Attr("email", Undefined, FALSE, TRUE, FALSE),
                         Attr("a", Undefined, FALSE, FALSE, FALSE),
                         Attr("b", Undefined, FALSE, FALSE, FALSE)>>,
     indexes |-> <<[unique |-> TRUE, fields |-> <<"a", "b">>]>>]

\* a model with a primary key over two attributes and a unique attribute
CompositeModel ==
    [rawAttributes |-> <<Attr("a", Undefined, TRUE, FALSE, FALSE),
                         Attr("b", Undefined, TRUE, FALSE, FALSE),
                         Attr("email", Undefined, FALSE, TRUE, FALSE),
                         Attr("id", Undefined, FALSE, FALSE, FALSE)>>,
     indexes |-> <<>>]

\* the disjuncts of where[Op.or]: one key or a composite key, each component
\* null, zero or a value
UpsertClauses ==
    LET values == {Null, "0", "7"}
    IN  {<<<<k, v>>>> : k \in {"id", "email"}, v \in values}
          \cup {<<<<"a", v>>, <<"b", w>>>> : v \in values, w \in values}
\* the lists of at most n disjuncts
RECURSIVE ClauseLists(_)
ClauseLists(n) ==
    IF n = 0 THEN {<<>>}
    ELSE ClauseLists(n - 1)
           \cup {Append(l, c) : l \in {x \in ClauseLists(n - 1) : Len(x) = n - 1},
                                c \in UpsertClauses}
UpsertQueryInputs ==
    LET values == <<<<"id", "7">>, <<"email", "x@y.com">>, <<"a", "1">>>>
    IN  {Input("upsertQuery", [tableName |-> "T", insertValues |-> values,
                               updateValues |-> values, where |-> w, model |-> m]) :
            w \in ClauseLists(MaxClauses), m \in {KeyedModel, UniqueOnlyModel, CompositeModel}}

\* the rows of the index catalog query: one or two rows, of the same or of two
\* indexes, each with a COLNAMES string of up to MaxColumns signed names
ShowIndexesInputs ==
    LET RECURSIVE Colnames(_)
        Colnames(n) ==
            IF n = 0 THEN {<<>>}
            ELSE {c \o <<sign, name>> : c \in Colnames(n - 1),
                                        sign \in {"+", "-"}, name \in {"a", "b"}}
        strings == UNION {Colnames(n) : n \in 1..MaxColumns}
        rows == {[name |-> ix, COLNAMES |-> c, tableName |-> "T", type |-> "REG",
                  keyType |-> IF ix = "i1" THEN "P" ELSE "U"] :
                    ix \in {"i1", "i2"}, c \in strings}
    IN  {Input("handleShowIndexesQuery", [data |-> d]) :
            d \in {<<r>> : r \in rows} \cup {<<r, t>> : r \in rows, t \in rows}}

\* the rows and the column metadata the coercion pass of _run works on: one
\* or two rows of two columns, each cell null or a text; each column of a type
\* with a registered parser, of a type with a built-in coercion or of another
\* type; SQL_DESC_CONCISE_TYPE holds the column's name or the type's code
CoerceInputs ==
    LET types == <<"DATE", "TIMESTAMP", "BLOB", "CHAR () FOR BIT DATA", "INTEGER">>
        codes == <<"91", "93", "-98", "-2", "4">>
        row(a, b) == <<Cell("c1", a), Cell("c2", b)>>
        rows == {row(a, b) : a \in {Null, "v"}, b \in {Null, "w"}}
        col(n, t, keyed) == [name |-> n,
                             concise |-> IF keyed = "name" THEN n ELSE codes[t],
                             typeName |-> types[t]]
        metas == {Meta(Undefined, <<col("c1", t1, keyed), col("c2", t2, keyed)>>) :
                     t1 \in 1..5, t2 \in 1..5, keyed \in {"name", "code"}}
    IN  {Input("coerce", [rows |-> d, metadata |-> m]) :
            d \in {<<r>> : r \in rows} \cup {<<r, t>> : r \in rows, t \in rows},
            m \in metas}

CallInit ==
    /\ InitRuns
    /\ call \in FormatResultsInputs \cup FormatErrorInputs \cup UpsertQueryInputs
                \cup ShowIndexesInputs \cup CoerceInputs

\* formatResults(data, data.length, metadata) on a Query for the insert statement
FormatResultsCall ==
    /\ call.op = "formatResults" /\ ~call.done
    /\ call' = [call EXCEPT !.done = TRUE, !.out =
          FormatResults(call.in.opts, InsertStatement, call.in.data,
                        Len(call.in.data.rows), call.in.metadata, NoConn, Unset)]
    /\ UNCHANGED <<runVars, autoGenValue, emitted>>

\* formatError(err, conn, parameters)
FormatErrorCall ==
    /\ call.op = "formatError" /\ ~call.done
    /\ call' = [call EXCEPT !.done = TRUE, !.out =
          FormatError(call.in.err, call.in.conn, call.in.parameters, call.in.opts)]
    /\ UNCHANGED <<runVars, autoGenValue, emitted>>

\* upsertQuery(tableName, insertValues, updateValues, where, model)
UpsertQueryCall ==
    /\ call.op = "upsertQuery" /\ ~call.done
    /\ call' = [call EXCEPT !.done = TRUE, !.out =
          upsertQuery(call.in.tableName, call.in.insertValues,
                      call.in.updateValues, call.in.where, call.in.model)]
    /\ UNCHANGED <<runVars, autoGenValue, emitted>>

\* handleShowIndexesQuery(data)
ShowIndexesCall ==
    /\ call.op = "handleShowIndexesQuery" /\ ~call.done
    /\ call' = [call EXCEPT !.done = TRUE, !.out =
          [threw |-> FALSE, indexes |-> handleShowIndexesQuery(call.in.data)]]
    /\ UNCHANGED <<runVars, autoGenValue, emitted>>

\* the coercion pass of _run (lines 159-182) on fetched rows; a TypeError leaves
\* the rows as they were when it was thrown, which nothing looks at afterwards
CoerceCall ==
    /\ call.op = "coerce" /\ ~call.done
    /\ call' = [call EXCEPT !.done = TRUE, !.out =
          IF CoerceThrows(call.in.rows, call.in.metadata)
          THEN [threw |-> TRUE, rows |-> <<>>]
          ELSE [threw |-> FALSE,
                rows |-> CoerceRows(call.in.rows, call.in.metadata)]]
    /\ UNCHANGED <<runVars, autoGenValue, emitted>>

CallNext ==
    \/ FormatResultsCall
    \/ FormatErrorCall
    \/ UpsertQueryCall
    \/ ShowIndexesCall
    \/ CoerceCall

CallSpec == CallInit /\ [][CallNext]_vars

(***************************************************************************)
(* Builds of insertQuery and bulkInsertQuery on the generators             *)
(***************************************************************************)
\* a build on generator g has returned r: the counter and the record of the
\* synthetic values that were put into SQL text
Built(g, op, in, r) ==
    /\ r.autoGenValue <= MaxAutoGen
    /\ Len(emitted[g]) < MaxAutoGen
    /\ autoGenValue' = [autoGenValue EXCEPT ![g] = r.autoGenValue]
    /\ emitted' = [emitted EXCEPT ![g] = emitted[g] \o SyntheticValuesIn(r.query)]
    /\ call' = [op |-> op, done |-> TRUE, in |-> [gen |-> g, values |-> in],
                out |-> [threw |-> FALSE, query |-> r.query, bind |-> r.bind]]
    /\ UNCHANGED runVars

\* the model of the builds: an auto-increment id and a plain column
BuildAttributes ==
    <<Attr("id", Undefined, TRUE, FALSE, TRUE), Attr("email", Undefined, FALSE, FALSE, FALSE)>>

\* value hashes: no column, a null id only, a column, a null id and a column
BuildValueHashes ==
    {<<>>, <<<<"id", Null>>>>, <<<<"email", "x@y.com">>>>,
     <<<<"id", Null>>, <<"email", "x@y.com">>>>}

\* insertQuery on generator g; the dialect accepts VALUES with a placeholder,
\* its other two flags are open
InsertQueryBuild(g) ==
    \E vh \in BuildValueHashes : \E dv \in BOOLEAN : \E df \in BOOLEAN :
        Built(g, "insertQuery", vh,
              insertQuery(autoGenValue[g], "T", vh, BuildAttributes,
                          [valuesEmpty |-> TRUE, autoIncrementDefaultValue |-> dv,
                           DEFAULT |-> df]))

\* bulkInsertQuery on generator g for one or two rows
BulkInsertQueryBuild(g) ==
    \E rows \in {<<a>> : a \in BuildValueHashes}
                  \cup {<<a, b>> : a \in BuildValueHashes, b \in BuildValueHashes} :
        Built(g, "bulkInsertQuery", rows,
              bulkInsertQuery(autoGenValue[g], "T", rows, FALSE, BuildAttributes))

BuildNext == \E g \in Generators : InsertQueryBuild(g) \/ BulkInsertQueryBuild(g)

BuildSpec == Init /\ [][BuildNext]_vars

(***************************************************************************)
(* Properties                                                              *)
(***************************************************************************)
\* the run has ended: its promise is settled, or a callback threw before
\* settling it
Ended(q) == pc[q] \in {"settled", "hung"}
\* the last callback of the run was the callback of execute
AtExecute(q) == Ended(q) /\ InSeq("execute", calls[q])

\* C1: every call of run eventually settles and releases the lock of the
\* connection, whatever the outcome of the statement, so that a caller queued
\* on the connection eventually gets it and is served in turn.
C1_EveryRunSettlesAndReleases ==
    \A q \in Queries : (pc[q] = "waiting") ~> (pc[q] = "idle")

\* a callback threw before the promise was settled: the run holds the lock
\* and will never give it back
C1_HungHoldingLock ==
    \E q \in Queries : pc[q] = "hung" /\ lockHolder = q /\ outcome[q] = "pending"

\* C2: once the promise of a statement whose prepare succeeded is settled
\* (the lock is released next), its statement handle is closed and the result
\* handle, if the driver returned one, is closed too.
C2_HandlesClosedBeforeRelease ==
    \A q \in Queries :
        (pc[q] = "settled" /\ stmt[q] # "none") =>
            (stmt[q] = "closed" /\ result[q] # "open")

\* an execute error was propagated although the driver handed over a result
C2_PropagatedWithResult ==
    \E q \in Queries :
        /\ pc[q] = "settled" /\ outcome[q] = "rejected"
        /\ stmt[q] = "closed" /\ result[q] = "open"

\* C3: whenever the error translator is entered with a driver error, of any
\* shape and from any driver call, run rejects with one of the four semantic
\* error kinds whose cause is that driver error.
C3_RejectionsAreSemanticErrors ==
    \A q \in Queries :
        (Ended(q) /\ translations[q] > 0) =>
            /\ outcome[q] = "rejected"
            /\ error[q].kind \in {"UniqueConstraintError", "ForeignKeyConstraintError",
                                  "UnknownConstraintError", "DatabaseError"}
            /\ error[q].parent.hasMessage = driverErr[q].err.hasMessage
            /\ error[q].parent.message = driverErr[q].err.message

\* the translator was entered with an error that has no message text
C3_TranslatorThrew ==
    \E q \in Queries :
        /\ Ended(q) /\ translations[q] > 0
        /\ ~driverErr[q].err.hasMessage
        /\ outcome[q] = "pending" /\ uncaught[q]

\* C4: the commit primitive of the driver is called only by the commit of a
\* transaction that has no parent.
C4_CommitOnlyForOutermost ==
    \A q \in Queries :
        InSeq("commitTransaction", calls[q]) =>
            (req[q].op = "commit" /\ ~req[q].nested)

\* the start of a nested transaction has called the commit primitive
C4_SavepointCommits ==
    \E q \in Queries :
        /\ req[q].op = "begin" /\ req[q].nested
        /\ calls[q] = <<"commitTransaction", "beginTransaction">>
        /\ outcome[q] = "resolved"

\* C5: an execute error is suppressed (run resolves) only for the
\* table-not-found code on a DROP, the schema-not-found code on a schema drop,
\* the duplicate-object code on a CREATE, the deadlock code with reason code 2
\* and the informational warning code.
C5_SuppressionOnlyInListedCases ==
    \A q \in Queries :
        (AtExecute(q) /\ driverErr[q].hasErr /\ outcome[q] = "resolved") =>
            LET m == driverErr[q].err.message
            IN  \/ Contains(m, "SQL0204N") /\ StartsWith(thisSql[q], <<Kw("DROP")>>)
                \/ Contains(m, "SQL0443N") /\ isDropSchemaQuery(thisSql[q])
                \/ Contains(m, "SQL0601N") /\ StartsWith(thisSql[q], <<Kw("CREATE")>>)
                \/ Contains(m, "SQL0911N") /\ Contains(m, "Reason code \"2\"")
                \/ Contains(m, "SQL0605W")

\* the duplicate-object code was suppressed on a SELECT
C5_DuplicateObjectOnSelect ==
    \E q \in Queries :
        /\ AtExecute(q) /\ driverErr[q].hasErr
        /\ Contains(driverErr[q].err.message, "SQL0601N")
        /\ StartsWith(thisSql[q], <<Kw("SELECT")>>)
        /\ outcome[q] = "resolved"

\* C6: when the execute of a DROP TABLE statement built by dropTableQuery
\* reports the table-not-found code, run resolves with formatResults of the
\* empty row list and zero affected rows, and formatError is not entered.
C6_DropTableNotFoundResolves ==
    \A q \in Queries :
        (/\ AtExecute(q)
         /\ req[q].sql = dropTableQuery("T")
         /\ driverErr[q].hasErr
         /\ Contains(driverErr[q].err.message, "SQL0204N")) =>
            /\ outcome[q] = "resolved"
            /\ value[q] = FormatResults(req[q].opts, req[q].sql, Data(<<>>), 0,
                                        NoMeta, NoConn, Unset).value
            /\ value[q] = Val("rawpair", "rows", <<>>, Undefined, -1)
            /\ translations[q] = 0

C6_DropTableNotFoundSeen ==
    \E q \in Queries :
        /\ AtExecute(q)
        /\ req[q].sql = dropTableQuery("T")
        /\ driverErr[q].hasErr
        /\ Contains(driverErr[q].err.message, "SQL0204N")
        /\ outcome[q] = "resolved"

\* C7: at most one run is between the grant of the lock and its release, and
\* every driver call (the catalog lookup of the translator included) is made
\* by the run that holds the lock.
C7_DriverCallsNotInterleaved ==
    [][/\ Cardinality({q \in Queries :
                          pc'[q] \notin {"idle", "waiting", "skipped"}}) <= 1
       /\ \A q \in Queries :
             (calls'[q] # calls[q] /\ calls'[q] # <<>>) => lockHolder' = q]_vars

\* one run has made the catalog lookup of the translator under the lock while
\* the other run waits for the lock
C7_SecondRunWaits ==
    \E q \in Queries : \E o \in Queries \ {q} :
        /\ lockHolder = q
        /\ InSeq("querySync", calls[q]) /\ InSeq("execute", calls[q])
        /\ pc[o] = "waiting"

\* C8: formatResults of an insert with a bound instance does not throw and
\* sets the auto-increment attribute to the first non-empty one of: the first
\* row's id field, the metadata's id field, the first row's value under the
\* attribute's name, the first row's value under the aliased field name; when
\* all are empty the attribute gets an empty value.
C8_InsertIdIsFirstNonEmptyCandidate ==
    (/\ call.op = "formatResults" /\ call.done
     /\ call.in.opts.instance.present) =>
        LET o == call.in.opts
            d == call.in.data
            firstRow(c) == IF d.present /\ d.rows # <<>> THEN RowGet(d.rows[1], c)
                           ELSE Undefined
            candidates == <<firstRow("id"),
                            IF call.in.metadata.present THEN call.in.metadata.id
                            ELSE Undefined,
                            firstRow(o.autoInc),
                            IF o.alias # Undefined THEN firstRow(o.alias)
                            ELSE Undefined>>
            nonEmpty == {i \in 1..4 : candidates[i] \notin Falsy}
        IN  /\ ~call.out.threw
            /\ nonEmpty # {} =>
                  call.out.instanceId =
                      candidates[CHOOSE i \in nonEmpty : \A j \in nonEmpty : i <= j]
            /\ nonEmpty = {} => call.out.instanceId \in Falsy

\* the first row has an empty id field, the metadata has an id and the row
\* has a value under the aliased field name: the metadata's id is taken
C8_MetadataIdBeforeRowFields ==
    /\ call.op = "formatResults" /\ call.done
    /\ call.in.opts.instance.present
    /\ call.in.opts.alias = "user_id"
    /\ FirstRowField(call.in.data, "id") = "0"
    /\ call.in.metadata.id = "22"
    /\ FirstRowField(call.in.data, "user_id") = "9"
    /\ call.out.instanceId = "22"

\* C9: translating a unique violation whose index resolves to a declared
\* unique key of the model gives a UniqueConstraintError with exactly one
\* field entry, under the key's column, holding the where-clause value of the
\* column if there is one, else the instance's current value, else the first
\* positional parameter; the message is the key's custom message if declared.
C9_UniqueViolationAttribution ==
    (/\ call.op = "formatError" /\ call.done
     /\ call.in.conn.present /\ call.in.conn.catalog # <<>>
     /\ call.in.conn.catalog[1] \in DOMAIN call.in.opts.uniqueKeys) =>
        LET o == call.in.opts
            key == o.uniqueKeys[call.in.conn.catalog[1]]
            w == Get(o.where, key.column)
            i == Get(o.instance, key.column)
            expected == IF o.where.present /\ w # Undefined THEN w
                        ELSE IF o.instance.present /\ i \notin {Undefined, Null} THEN i
                        ELSE call.in.parameters.first
            sourced == \/ o.where.present /\ w # Undefined
                       \/ o.instance.present /\ i \notin {Undefined, Null}
                       \/ call.in.parameters.present
        IN  /\ ~call.out.threw
            /\ call.out.kind = "UniqueConstraintError"
            /\ sourced => /\ DOMAIN call.out.fields = {key.column}
                          /\ call.out.fields[key.column] = expected
            /\ key.msg # Undefined => call.out.message = <<key.msg>>

\* the instance holds 0 under the key's column and there is no where-clause:
\* the first positional parameter is reported instead of the instance's value
C9_InstanceValueSkipped ==
    /\ call.op = "formatError" /\ call.done
    /\ call.in.conn.present /\ call.in.conn.catalog = <<"uk_email">>
    /\ ~call.in.opts.where.present
    /\ Get(call.in.opts.instance, "email") = "0"
    /\ call.in.parameters.present
    /\ call.out.kind = "UniqueConstraintError"
    /\ call.out.fields["email"] = call.in.parameters.first

\* C10: upsertQuery throws its configuration error, returning no SQL text and
\* with no driver call made, when every disjunct of the filter clause has a
\* null-valued key component.
C10_UpsertWithoutUsableKeyThrows ==
    (/\ call.op = "upsertQuery" /\ call.done
     /\ \A i \in 1..Len(call.in.where) :
           \E j \in 1..Len(call.in.where[i]) : call.in.where[i][j][2] = Null) =>
        /\ call.out.threw
        /\ call.out.error = "Primary Key or Unique key should be passed to upsert query"
        /\ call.out.sql = NoSql
        /\ \A q \in Queries : calls[q] = <<>>

\* two disjuncts, a single key and a composite key, each with a null component
C10_AllDisjunctsNull ==
    /\ call.op = "upsertQuery" /\ call.done
    /\ call.in.where = <<<<<<"id", Null>>>>, <<<<"a", "7">>, <<"b", Null>>>>>>
    /\ call.out.threw

\* the ON condition of a MERGE statement: the text between ON and the first WHEN
JoinConditionOf(sql) ==
    LET onAt == CHOOSE i \in 1..Len(sql) : sql[i] = Kw("ON")
        whenAt == CHOOSE i \in 1..Len(sql) :
                     /\ sql[i] = Kw("WHEN")
                     /\ \A j \in 1..(i - 1) : sql[j] # Kw("WHEN")
    IN  SubSeq(sql, onAt + 1, whenAt - 1)

C12_SyntheticValuesIncreasePerGenerator ==
    /\ []((call.op = "insertQuery" /\ call.in.values = <<>>) =>
            call.out.query =
                <<Kw("SELECT"), Punct("*"), Kw("FROM"), Kw("FINAL"), Kw("TABLE"),
                  Punct("("), Kw("INSERT"), Kw("INTO"), quoteTable("T"), Kw("VALUES"),
                  Punct("("), <<"num", emitted[call.in.gen][Len(emitted[call.in.gen])]>>,
                  Punct(")"), Punct(")"), Punct(";")>>)
    /\ [](\A g \in Generators : \A i \in 1..Len(emitted[g]) : \A j \in 1..Len(emitted[g]) :
            i < j => emitted[g][i] < emitted[g][j])
    /\ [][\A g \in Generators :
             (call'.op \in {"insertQuery", "bulkInsertQuery"} /\ call'.in.gen # g) =>
                 (autoGenValue'[g] = autoGenValue[g] /\ emitted'[g] = emitted[g])]_vars

\* generator g1 has built an insert without columns, one with a column and
\* again one without columns: values 1 and 3; generator g2 has emitted its own 1
C12_GapAndSecondGenerator ==
    /\ call.op = "insertQuery" /\ call.in.gen = "g1" /\ call.in.values = <<>>
    /\ emitted["g1"] = <<1, 3>>
    /\ autoGenValue["g1"] = 4
    /\ emitted["g2"] = <<1>>

\* C13: for a COLNAMES string made of n >= 1 signed column names the index
\* descriptor has exactly n field entries, in the order of the string, ASC for
\* a name after '+' and DESC for a name after '-'; the rows of one index name
\* are grouped into one descriptor.
C13_ShowIndexesFields ==
    (call.op = "handleShowIndexesQuery" /\ call.done) =>
        LET data == call.in.data
            names == {data[i].name : i \in 1..Len(data)}
            \* the signed names of one string: characters 2k-1 and 2k
            parsed(c) == [k \in 1..(Len(c) \div 2) |->
                            [attribute |-> <<c[2 * k]>>,
                             order |-> IF c[2 * k - 1] = "+" THEN "ASC" ELSE "DESC"]]
            expected(name) ==
                IF Len(data) = 2 /\ data[1].name = name /\ data[2].name = name
                THEN parsed(data[1].COLNAMES) \o parsed(data[2].COLNAMES)
                ELSE parsed(data[CHOOSE i \in 1..Len(data) : data[i].name = name].COLNAMES)
        IN  /\ Len(call.out.indexes) = Cardinality(names)
            /\ \A k \in 1..Len(call.out.indexes) :
                   /\ call.out.indexes[k].name \in names
                   /\ call.out.indexes[k].fields = expected(call.out.indexes[k].name)

\* COLNAMES '+a+b' has become the single ascending field 'a+b'
C13_SecondPlusNotSplit ==
    /\ call.op = "handleShowIndexesQuery" /\ call.done
    /\ Len(call.in.data) = 1
    /\ call.in.data[1].COLNAMES = <<"+", "a", "+", "b">>
    /\ call.out.indexes[1].fields = <<[attribute |-> <<"a", "+", "b">>, order |-> "ASC"]>>

\* C14: the text updateQuery builds without a row limit begins with SELECT *
\* FROM FINAL TABLE, yet run as an update it does not go the way of a SELECT:
\* the text handed to prepare is the text as built (no dummy table appended)
\* and run resolves with the pair of the bound instance (or nothing) and the
\* row count, never with a select result.
C14_UpdateTextRunsAsUpdate ==
    \A q \in Queries :
        (/\ req[q].sql = updateQuery("T", <<<<"email", "x@y.com">>>>, <<<<"id", "7">>>>,
                                     Undefined)
         /\ req[q].opts.type = "UPDATE"
         /\ InSeq("prepare", calls[q])) =>
            /\ StartsWith(req[q].sql, <<Kw("SELECT"), Punct("*"), Kw("FROM"), Kw("FINAL"),
                                        Kw("TABLE")>>)
            /\ thisSql[q] = req[q].sql
            /\ outcome[q] = "resolved" =>
                  /\ value[q].shape = "pair"
                  /\ value[q].inner = IF req[q].opts.instance.present THEN "instance"
                                      ELSE "undefined"
                  /\ value[q].count \in 0..2

\* the update of a bound instance has resolved with (instance, 2)
C14_UpdateResolvedWithPair ==
    \E q \in Queries :
        /\ req[q].opts.type = "UPDATE" /\ req[q].opts.instance.present
        /\ StartsWith(thisSql[q], <<Kw("SELECT"), Punct("*"), Kw("FROM"), Kw("FINAL")>>)
        /\ pc[q] = "settled" /\ outcome[q] = "resolved"
        /\ value[q] = Val("pair", "instance", <<>>, Undefined, 2)

\* C15: for an insert matched by no more specific class, formatResults
\* returns the bound instance when one is bound, the value of the first column
\* of the first row when plain is set and no instance is bound, and the row
\* list when no instance is bound and plain is not set.
C15_InsertReturnsInstanceScalarOrRows ==
    (/\ call.op = "formatResults" /\ call.done /\ ~call.out.threw
     /\ call.in.opts.type = "INSERT") =>
        LET o == call.in.opts
            d == call.in.data
            v == call.out.value
        IN  /\ o.instance.present => v.shape = "instance"
            /\ (~o.instance.present /\ o.plain) =>
                  /\ v.shape = "scalar"
                  /\ v.scalar = IF d.rows[1] = <<>> THEN Undefined ELSE d.rows[1][1][2]
            /\ (~o.instance.present /\ ~o.plain /\ d.present) =>
                  (v.shape = "rows" /\ v.rows = d.rows)

\* C15 as amended: formatResults returns a pair whose second component is the
\* row count and whose first component is the bound instance when one is
\* bound, the value of the first column of the first row when plain is set, no
\* instance is bound and there is a first row, and the data as passed (the
\* row list) when no instance is bound and plain is not set.
C15_InsertReturnsPairOfResultAndCount ==
    (/\ call.op = "formatResults" /\ call.done
     /\ call.in.opts.type = "INSERT"
     /\ (~call.in.opts.instance.present /\ call.in.opts.plain) =>
            (call.in.data.present /\ call.in.data.rows # <<>>)) =>
        LET o == call.in.opts
            d == call.in.data
            v == call.out.value
        IN  /\ ~call.out.threw
            /\ v.shape = "pair"
            /\ v.count = Len(d.rows)
            /\ o.instance.present => v.inner = "instance"
            /\ (~o.instance.present /\ o.plain) =>
                  /\ v.inner = "scalar"
                  /\ v.scalar = IF d.rows[1] = <<>> THEN Undefined ELSE d.rows[1][1][2]
            /\ (~o.instance.present /\ ~o.plain) =>
                  IF d.present THEN v.inner = "rows" /\ v.rows = d.rows
                  ELSE v.inner = "undefined"

\* a plain insert without instance has returned (7, 1): the first column of
\* the first row and the row count
C15_PlainScalarInPair ==
    /\ call.op = "formatResults" /\ call.done
    /\ ~call.in.opts.instance.present /\ call.in.opts.plain
    /\ call.in.data.rows = <<<<Cell("id", "7"), Cell("userId", "8")>>>>
    /\ call.out.value = Val("pair", "scalar", <<>>, "7", 1)

\* C16: whenever run rejects with a translated driver error, from execute,
\* from prepare or from a transaction primitive, the error carries the text of
\* the failing statement and the bind parameters.
C16_PropagatedErrorCarriesStatement ==
    \A q \in Queries :
        (pc[q] = "settled" /\ outcome[q] = "rejected") =>
            /\ error[q].parent.hasSql
            /\ error[q].parent.sql = req[q].sql
            /\ req[q].parameters.present => error[q].parent.hasParameters

\* a prepare error was propagated: the error has no statement text
C16_PrepareErrorWithoutStatement ==
    \E q \in Queries :
        /\ pc[q] = "settled" /\ outcome[q] = "rejected"
        /\ calls[q] = <<"prepare">>
        /\ error[q].kind = "DatabaseError"
        /\ ~error[q].parent.hasSql

\* C17: for a transaction with a parent, begin gives SAVE TRANSACTION with
\* the transaction's name, rollback gives ROLLBACK TRANSACTION with the name
\* and commit gives no SQL; for a transaction without parent they give the
\* plain BEGIN, COMMIT and ROLLBACK TRANSACTION statements. Run with any of
\* these texts, _run calls a transaction primitive and never prepare/execute.
C17_TransactionTextsAreTransactionControl ==
    \A q \in Queries :
        req[q].op \in {"begin", "commit", "rollback"} =>
            LET named(first) == <<Kw(first), Kw("TRANSACTION"),
                                  quoteIdentifier(req[q].opts.txName), Punct(";")>>
                plain(first) == <<Kw(first), Kw("TRANSACTION"), Punct(";")>>
            IN  /\ req[q].sql =
                     IF req[q].nested
                     THEN (CASE req[q].op = "begin" -> named("SAVE")
                             [] req[q].op = "rollback" -> named("ROLLBACK")
                             [] req[q].op = "commit" -> NoSql)
                     ELSE (CASE req[q].op = "begin" -> plain("BEGIN")
                             [] req[q].op = "rollback" -> plain("ROLLBACK")
                             [] req[q].op = "commit" -> plain("COMMIT"))
                /\ req[q].nested => req[q].opts.txName \in {"t2", "t3", "t4"}
                /\ ~InSeq("prepare", calls[q]) /\ ~InSeq("execute", calls[q])
                /\ stmt[q] = "none"
                /\ (pc[q] = "settled" /\ req[q].sql # NoSql) =>
                      \E i \in 1..Len(calls[q]) :
                          calls[q][i] \in {"beginTransaction", "commitTransaction",
                                           "rollbackTransaction"}

\* the begin of a nested transaction was run as SAVE TRANSACTION "t2"; and
\* resolved through the transaction primitives
C17_SavepointTextRun ==
    \E q \in Queries :
        /\ req[q].op = "begin" /\ req[q].nested
        /\ thisSql[q] = <<Kw("SAVE"), Kw("TRANSACTION"), quoteIdentifier("t2"), Punct(";")>>
        /\ pc[q] = "settled" /\ outcome[q] = "resolved"
        /\ ~InSeq("prepare", calls[q])

\* C18: the text handed to prepare for a SELECT whose text has no FROM
\* clause is the text without its trailing terminator (if it has one)
\* followed by the dummy table clause; a SELECT that has a FROM clause, and
\* every statement that is not a SELECT, is handed to prepare as it is.
C18_DummyTableOnlyWithoutFrom ==
    \A q \in Queries :
        InSeq("prepare", calls[q]) =>
            LET sql == req[q].sql
                hasFrom == \E i \in 1..Len(sql) : sql[i] \in {Kw("FROM"), Kw("from")}
                stripped == IF sql[Len(sql)] = Punct(";")
                            THEN SubSeq(sql, 1, Len(sql) - 1) ELSE sql
            IN  thisSql[q] =
                    IF req[q].opts.type = "SELECT" /\ ~hasFrom
                    THEN stripped \o <<Kw("FROM"), Kw("SYSIBM.SYSDUMMY1")>>
                    ELSE sql

\* select * from "T" was handed to prepare with the dummy table appended
C18_LowerCaseFromGetsDummyTable ==
    \E q \in Queries :
        /\ InSeq("prepare", calls[q])
        /\ req[q].sql = <<Kw("select"), Punct("*"), Kw("from"), quoteTable("T")>>
        /\ thisSql[q] = <<Kw("select"), Punct("*"), Kw("from"), quoteTable("T"),
                          Kw("FROM"), Kw("SYSIBM.SYSDUMMY1")>>

\* C19: when prepare reports an error, run rejects with the translated error
\* and the callback does nothing more with the driver: execute is not called
\* and no handle is touched, so the callback ends without an exception.
C19_PrepareFailureEndsTheRun ==
    \A q \in Queries :
        (Ended(q) /\ driverErr[q].hasErr /\ ~InSeq("execute", calls[q])
         /\ InSeq("prepare", calls[q])) =>
            /\ outcome[q] = "rejected"
            /\ calls[q] = <<"prepare">>
            /\ stmt[q] = "none"
            /\ ~uncaught[q]

\* prepare failed with a syntax error: run rejected with a DatabaseError, and
\* the callback went on to stmt.execute without a statement and threw
C19_ExecuteOnMissingStatement ==
    \E q \in Queries :
        /\ pc[q] = "settled" /\ outcome[q] = "rejected"
        /\ calls[q] = <<"prepare">>
        /\ driverErr[q].err.message = <<"SQL0104N">>
        /\ error[q].kind = "DatabaseError"
        /\ uncaught[q]

\* C20: running the rollback statement of a transaction that has a parent
\* rolls back to that transaction's savepoint only: the rollback primitive of
\* the driver is called with the savepoint's name, not as the rollback of the
\* whole transaction, so that the work of the enclosing transaction stands.
C20_NestedRollbackNamesSavepoint ==
    \A q \in Queries :
        (/\ req[q].op = "rollback" /\ req[q].nested
         /\ InSeq("rollbackTransaction", calls[q])) =>
            /\ req[q].opts.txName # Undefined
            /\ savepoint[q] = req[q].opts.txName

\* ROLLBACK TRANSACTION "t2" has resolved after the rollback primitive was
\* called with a callback and nothing else
C20_WholeTransactionRolledBack ==
    \E q \in Queries :
        /\ req[q].op = "rollback" /\ req[q].nested
        /\ thisSql[q] = rollbackTransactionQuery([name |-> "t2", parent |-> TRUE])
        /\ calls[q] = <<"rollbackTransaction">>
        /\ savepoint[q] = Undefined
        /\ pc[q] = "settled" /\ outcome[q] = "resolved"

\* C21: in the row coercion pass, with each column's type name being the one
\* the column metadata reports for that column, no error is raised and every
\* cell ends as follows: a null cell unchanged; a non-null cell of a type with
\* a registered parser parsed; else a TIMESTAMP cell a date-time, a BLOB cell a
\* byte sequence, a FOR BIT DATA cell the bytes of its hex text; a cell of any
\* other type unchanged.
C21_CellsCoercedByReportedType ==
    (call.op = "coerce" /\ call.done) =>
        LET cols == call.in.metadata.cols
            reported(c) == cols[CHOOSE k \in 1..Len(cols) : cols[k].name = c].typeName
            expected(cell) ==
                LET t == reported(cell[1])
                IN  IF cell[2] = Null THEN cell
                    ELSE IF t \in RegisteredParsers THEN <<cell[1], cell[2], "parsed">>
                    ELSE IF t = "TIMESTAMP" THEN <<cell[1], cell[2], "date">>
                    ELSE IF t = "BLOB" THEN <<cell[1], cell[2], "buffer">>
                    ELSE IF t \in {"CHAR () FOR BIT DATA", "VARCHAR () FOR BIT DATA"}
                    THEN <<cell[1], cell[2], "hexbuffer">>
                    ELSE cell
        IN  /\ ~call.out.threw
            /\ Len(call.out.rows) = Len(call.in.rows)
            /\ \A i \in 1..Len(call.in.rows) :
                 /\ Len(call.out.rows[i]) = Len(call.in.rows[i])
                 /\ \A j \in 1..Len(call.in.rows[i]) :
                      call.out.rows[i][j] = expected(call.in.rows[i][j])

\* the pass has thrown on a non-null cell of a TIMESTAMP column: the metadata
\* reports the type under the column's type code, and the type is looked up
\* under the column's name
C21_TimestampCellUnderTypeCode ==
    /\ call.op = "coerce" /\ call.done
    /\ call.out.threw
    /\ call.in.metadata.cols[1].typeName = "TIMESTAMP"
    /\ call.in.metadata.cols[1].concise = "93"
    /\ call.in.rows[1][1] = Cell("c1", "v")


\* C22: for a unique-violation message carrying an index id of any number of
\* digits, formatError issues the catalog query only when it has a connection,
\* and the query selects on exactly that index id and on the schema and the
\* table named in the message.
C22_CatalogQuerySelectsTheIndexId ==
    (call.op = "formatError" /\ call.done /\ MatchUnique(call.in.err.message).matched) =>
        LET msg == call.in.err.message
            j == CHOOSE k \in 1..Len(msg) : msg[k] = VendorText.u803[2]
            iid == SubSeq(msg, 2, j - 1)
        IN  IF call.in.conn.present
            THEN /\ Len(call.out.lookups) = 1
                 /\ <<call.out.lookups[1].iid>> = iid
                 /\ call.out.lookups[1].schema = msg[j + 1]
                 /\ call.out.lookups[1].table = msg[j + 2]
            ELSE call.out.lookups = <<>>

\* the message names index 12 and the catalog query, issued on the
\* connection, selects on index 2
C22_TwoDigitIdQueriedByLastDigit ==
    /\ call.op = "formatError" /\ call.done
    /\ call.in.conn.present
    /\ SubSeq(call.in.err.message, 2, 3) = <<"1", "2">>
    /\ Len(call.out.lookups) = 1
    /\ call.out.lookups[1] = [iid |-> "2", schema |-> "S", table |-> "T"]


\* C23: bulkInsertQuery puts each input row in exactly one place: a row whose
\* only populated field is a null auto-increment primary key contributes one
\* synthetic value to the single-column VALUES list and no tuple to the
\* multi-row list; every other row contributes exactly one tuple to the
\* multi-row list, and every tuple has one value per column of the column list.
C23_EachRowInExactlyOnePlace ==
    (call.op = "bulkInsertQuery" /\ call.done) =>
        LET rows == call.in.values
            sql == call.out.query
            special(h) ==
                /\ Len(h) = 1 /\ h[1][2] = Null
                /\ \E a \in 1..Len(BuildAttributes) :
                     /\ BuildAttributes[a].key = h[1][1]
                     /\ BuildAttributes[a].autoIncrement
                     /\ BuildAttributes[a].primaryKey
            nSpecial == Cardinality({i \in 1..Len(rows) : special(rows[i])})
            \* the VALUES keyword of the multi-row list follows the column list
            lists == {p \in 2..Len(sql) : sql[p] = Kw("VALUES") /\ sql[p - 1] = Punct(")")}
            opens == {a \in 1..Len(sql) : sql[a] = Punct("(") /\ \E p \in lists : a > p}
            close(a) == CHOOSE b \in a..Len(sql) :
                            /\ sql[b] = Punct(")")
                            /\ \A k \in a..(b - 1) : sql[k] # Punct(")")
            width(a) == Cardinality({k \in a..close(a) : sql[k][1] = "lit"})
            columns == Cardinality({k \in 1..Len(sql) :
                                       /\ sql[k][1] = "qid"
                                       /\ sql[k - 1] # Kw("INTO")
                                       /\ \E p \in lists : k < p})
        IN  /\ Len(SyntheticValuesIn(sql)) = nSpecial
            /\ Cardinality(opens) = Len(rows) - nSpecial
            /\ \A a \in opens : width(a) = columns

\* a row with only a null id and a row with an email were built: the first
\* got its synthetic value, and the multi-row list has two tuples
C23_SpecialRowAlsoInTupleList ==
    /\ call.op = "bulkInsertQuery" /\ call.done
    /\ call.in.values = <<<<<<"id", Null>>>>, <<<<"email", "x@y.com">>>>>>
    /\ Len(SyntheticValuesIn(call.out.query)) = 1
    /\ \E p \in 2..Len(call.out.query) :
         SubSeq(call.out.query, p, p + 7) =
             <<Kw("VALUES"), Punct("("), escape(Undefined), Punct(")"), Punct(","),
               Punct("("), escape("x@y.com"), Punct(")")>>


\* C24: whenever a DropSchema statement (as built by dropSchema) completes
\* without a propagated error, the cleanup DROP of the error-log table has
\* been issued on the connection exactly once, and run resolves with the
\* first row, whether or not the call returned any rows.
C24_DropSchemaCleanupIssuedOnce ==
    \A q \in Queries :
        (/\ pc[q] = "settled"
         /\ req[q].sql = dropSchema("S")
         /\ outcome[q] = "resolved") =>
            /\ Len(SelectSeq(calls[q], LAMBDA c : c = "querySync")) = 1
            /\ value[q].shape \in {"row", "undefined"}

\* the schema drop was executed without error and returned no rows: run has
\* resolved with undefined and no cleanup DROP was issued
C24_NoRowsNoCleanup ==
    \E q \in Queries :
        /\ pc[q] = "settled"
        /\ req[q].sql = dropSchema("S")
        /\ outcome[q] = "resolved"
        /\ ~driverErr[q].hasErr
        /\ InSeq("fetchAllSync", calls[q])
        /\ value[q].shape = "undefined"
        /\ ~InSeq("querySync", calls[q])


\* C25: upsertQuery excludes a disjunct of the filter clause from the key
\* search exactly when it contains a null-valued key component: the build
\* fails with the configuration error when every disjunct has a null
\* component, and only then; a disjunct whose values are all non-null (0 and
\* the empty string included) is kept and the build returns SQL text.
C25_OnlyNullDisjunctsExcluded ==
    (call.op = "upsertQuery" /\ call.done) =>
        LET kept == SelectSeq(call.in.where,
                              LAMBDA c : \A j \in 1..Len(c) : c[j][2] # Null)
        IN  /\ call.out.threw <=> kept = <<>>
            /\ ~call.out.threw => call.out.sql # NoSql

\* the only disjunct gives the primary key the value 0, and the build has
\* failed with the configuration error
C25_ZeroKeyRejected ==
    /\ call.op = "upsertQuery" /\ call.done
    /\ call.in.model = KeyedModel
    /\ call.in.where = <<<<<<"id", "0">>>>>>
    /\ call.out.threw
    /\ call.out.error = "Primary Key or Unique key should be passed to upsert query"


\* C26: when the index of a unique violation is not resolved to a declared
\* unique key of the model and the insert's field list is there, the violation
\* is attributed to the field at the index id's position in that list: the
\* UniqueConstraintError has a field entry keyed by that field's name, with the
\* value taken in the where-clause / instance / first-parameter order.
C26_FallbackAttributesToListedField ==
    (/\ call.op = "formatError" /\ call.done
     /\ MatchUnique(call.in.err.message).matched
     /\ Len(call.in.err.message) = 6
     /\ ~call.out.threw
     /\ ~(/\ call.in.opts.hasModel
          /\ call.in.conn.present
          /\ call.in.conn.catalog[1] \in DOMAIN call.in.opts.uniqueKeys)
     /\ call.in.opts.fields.present
     /\ DigitVal(call.in.err.message[2]) \in 1..Len(call.in.opts.fields.list)) =>
        LET opts == call.in.opts
            field == opts.fields.list[DigitVal(call.in.err.message[2])]
            byName == [kind |-> "field", column |-> field, msg |-> Undefined]
        IN  /\ call.out.kind = "UniqueConstraintError"
            /\ call.out.fields = AttributeFields(opts, byName, call.in.parameters)

\* without connection the index 2 fell back to the second field of the list,
\* email, which the where-clause holds; the error's only field entry is keyed
\* "undefined" and holds the first parameter
C26_FieldEntryKeyedUndefined ==
    /\ call.op = "formatError" /\ call.done
    /\ ~call.in.conn.present
    /\ call.in.opts.fields.present
    /\ call.in.opts.fields.list = <<"name", "email">>
    /\ call.in.err.message[2] = "2" /\ Len(call.in.err.message) = 6
    /\ Get(call.in.opts.where, "email") = "x@y.com"
    /\ call.in.parameters.present
    /\ call.out.kind = "UniqueConstraintError"
    /\ DOMAIN call.out.fields = {Undefined}
    /\ call.out.fields[Undefined] = call.in.parameters.first

====
